---- MODULE Spec2Model ----
(***************************************************************************)
(* Model of the API access layer of the GetLate.dev dashboard (App.py):    *)
(* make_api_request wrapped by st.cache_data(ttl=300), the per-session     *)
(* state (api_key, profiles, accounts, last_refresh) and the page handlers *)
(* that call it.  st.session_state is per browser session; the st.cache_data *)
(* store is one per process and is shared by every session.                *)
(*                                                                         *)
(* Streamlit runs the script of each session in a thread of its own, so    *)
(* the script runs of different sessions interleave.  A step of the model  *)
(* is the code one session's run executes from one access to what the      *)
(* sessions share up to the next one: the st.cache_data lookup of a call,  *)
(* the return of a call that missed (its request was on the wire in        *)
(* between, and what it returns is stored when it returns),                *)
(* st.cache_data.clear(), and the end of a time.sleep().  A run that calls *)
(* st.rerun() goes on with the script run that follows it.  The code       *)
(* between two such points reads and writes the session's own state only.  *)
(* A session's widgets are operated while no run of that session is in     *)
(* progress, one widget per run.                                           *)
(*                                                                         *)
(* st.cache_data runs the function under a lock of the arguments' key: a   *)
(* call that misses while a call with the same arguments is in flight      *)
(* waits for it, reads the store again and runs the function only when it  *)
(* misses again.  st.cache_data.clear() empties the store and leaves the   *)
(* calls in flight alone: what they return is stored when they return.     *)
(*                                                                         *)
(* An exception that leaves main() is shown by the handler around it,      *)
(* which then draws the "Run Connection Test" button for a session that    *)
(* holds a key; pressing it runs the script again with that button         *)
(* pressed.                                                                *)
(*                                                                         *)
(* The exploration is bounded by the runs a behaviour starts (MaxSteps and *)
(* the budget of each specification) and by the times a run in progress is *)
(* overtaken by a step of another session (MaxSwitches).  In Spec and      *)
(* SpecCalls the clock advances at any point, in the other specifications  *)
(* while no run is in progress.                                            *)
(*                                                                         *)
(* A text typed into a form is the sequence of the code points of its      *)
(* characters.  The elements of the profiles, accounts, files and posts    *)
(* lists of a payload are well-formed objects (the pages read their        *)
(* fields without a fault): accounts are active, posts are scheduled and   *)
(* carry the ISO-8601 time they are scheduled for, with or without a UTC   *)
(* offset.  The widgets that make no request and are not named here stay   *)
(* as they are first drawn ("Show all posts" of the calendar unticked).    *)
(***************************************************************************)
EXTENDS Integers, Sequences, FiniteSets, TLC

\* ------------------------------------------------------------------ bounds
\* seconds the clock advances in one Tick
TickStep == 150
\* the clock stops advancing once it has reached MaxTime
MaxTime == 300
\* user interactions (script runs) explored per behaviour
MaxSteps == 4
\* times, per behaviour, a session steps while the run of another session
\* that stepped last is still in progress
MaxSwitches == 1

\* upload counts and limits a /usage-stats payload is explored with
MaxUploads == 12
MaxUploadLimit == 10

\* -------------------------------------------------------- program constants
\* st.cache_data(ttl=300)
TTL == 300

\* browser sessions of the one Streamlit process
Sessions == {"s1", "s2"}

\* values the API Key text input can hold; "" is the initial, falsy value
Keys == {"", "k1", "k2"}

\* ------------------------------------------------------------ Python values
\* Python None
None == [kind |-> "None"]

\* a Python str built by one of the message templates of make_api_request:
\* text is the literal part, status and detail the interpolated parts
\* (f"Error {status}: {detail}", f"Request failed: {detail}")
Str(text, status, detail) ==
    [kind |-> "str", text |-> text, status |-> status, detail |-> detail]

\* a decoded JSON object: the keys present and the values the code reads
Dict(keys, profiles, accounts, files, posts, message, uploads) ==
    [kind |-> "dict", keys |-> keys, profiles |-> profiles,
     accounts |-> accounts, files |-> files, posts |-> posts, message |-> message,
     uploads |-> uploads]

\* a decoded JSON array (only emptiness is observed)
List(n) == [kind |-> "list", len |-> n]

\* Python truthiness of a value: None, {}, [] and '' are falsy
Truthy(v) ==
    CASE v.kind = "None" -> FALSE
      [] v.kind = "dict" -> v.keys # {}
      [] v.kind = "list" -> v.len > 0
      [] v.kind = "str"  -> v.text # ""

\* ------------------------------------------------------------- remote data
AccountReddit  == [id |-> "1", platform |-> "reddit",  username |-> "bob"]
AccountTwitter == [id |-> "2", platform |-> "twitter", username |-> "amy"]

\* uploads.get('limit', 'Unlimited'): the string, or a number
UploadLimits ==
    {[unlimited |-> TRUE, n |-> 0]} \cup {[unlimited |-> FALSE, n |-> k] : k \in 0..MaxUploadLimit}

\* the body {"uploads": {"current": current, "limit": limit}} of a
\* /usage-stats response as sent on the wire
UsageText(current, limit) ==
    "{uploads " \o ToString(current) \o "/"
        \o (IF limit.unlimited THEN "Unlimited" ELSE ToString(limit.n)) \o "}"

\* response bodies as sent on the wire
RawTexts == {"null", "{}", "[]", "<html>", "{message}", "{A}", "{B}"}

\* response.json(): ok = FALSE stands for the JSONDecodeError it raises.
\* The post of {A} is scheduled for a time with a UTC offset, the post of
\* {B} for a time without one
JsonDecode(text) ==
    CASE text = "null"      -> [ok |-> TRUE, value |-> None]
      [] text = "{}"        -> [ok |-> TRUE,
                                value |-> Dict({}, <<>>, <<>>, <<>>, <<>>, "", None)]
      [] text = "[]"        -> [ok |-> TRUE, value |-> List(0)]
      [] text = "<html>"    -> [ok |-> FALSE, value |-> None]
      [] text = "{message}" -> [ok |-> TRUE,
                                value |-> Dict({"message"}, <<>>, <<>>, <<>>, <<>>, "m", None)]
      [] text = "{A}"       -> [ok |-> TRUE,
                                value |-> Dict({"profiles", "accounts", "files", "posts"},
                                               <<"p1">>, <<AccountReddit>>,
                                               <<"https://cdn/x.png">>,
                                               <<[id |-> "post1",
                                                  scheduledFor |->
                                                      [local |-> "2030-01-02T10:00:00",
                                                       offset |-> "Z"]]>>, "", None)]
      [] text = "{B}"       -> [ok |-> TRUE,
                                value |-> Dict({"profiles", "accounts", "files", "posts"},
                                               <<"p2">>, <<AccountTwitter, AccountReddit>>,
                                               <<"https://cdn/y.png">>,
                                               <<[id |-> "post2",
                                                  scheduledFor |->
                                                      [local |-> "2030-01-03T10:00:00",
                                                       offset |-> ""]]>>, "", None)]
      [] OTHER              ->
            LET usage == {u \in [current : 0..MaxUploads, limit : UploadLimits] :
                             UsageText(u.current, u.limit) = text}
            IN  IF usage = {} THEN [ok |-> FALSE, value |-> None]
                ELSE [ok |-> TRUE,
                      value |-> Dict({"uploads"}, <<>>, <<>>, <<>>, <<>>, "",
                                     CHOOSE u \in usage : TRUE)]

\* what requests.get/post/... can produce: a response (status line and body)
\* or an exception; exc names the class raised
Response(status, text) ==
    [type |-> "response", status |-> status, text |-> text, exc |-> ""]

Raised(exc) ==
    [type |-> "exception", status |-> 0, text |-> "", exc |-> exc]

Statuses == {200, 201, 204, 302, 400, 401, 404, 429, 500, 503}

\* ReadTimeout and ConnectTimeout derive from requests.exceptions.Timeout
\* (ConnectTimeout also from ConnectionError); "Other" is any other Exception
ExcClasses == {"ReadTimeout", "ConnectTimeout", "ConnectionError", "Other"}

AllOutcomes ==
    {Response(s, t) : s \in Statuses, t \in RawTexts} \cup {Raised(e) : e \in ExcClasses}

IsTimeout(exc) == exc \in {"ReadTimeout", "ConnectTimeout"}

IsConnectionError(exc) == exc \in {"ConnectionError", "ConnectTimeout"}

\* the methods for which make_api_request has a branch
IssuingMethods == {"GET", "POST", "PUT", "DELETE"}

\* ------------------------------------------------------- make_api_request
MsgNotConfigured == Str("API key not provided", 0, "")
MsgUnauthorized  == Str("Unauthorized: Please check your API key", 0, "")
MsgRateLimited   == Str("Rate limit exceeded. Please try again later", 0, "")
MsgServerError   == Str("Server error. Please try again later", 0, "")
MsgTimeout       == Str("Request timed out. Please try again", 0, "")
MsgConnection    == Str("Connection error. Please check your internet connection", 0, "")
MsgApiError(status, detail) == Str("Error {status}: {detail}", status, detail)
MsgUnknown(detail) == Str("Request failed: {detail}", 0, detail)

\* error_detail of the final else branch: response.json().get('message',
\* response.text), and response.text when json() or .get raises
ErrorDetail(text) ==
    LET d == JsonDecode(text) IN
    IF d.ok /\ d.value.kind = "dict" /\ "message" \in d.value.keys
    THEN d.value.message
    ELSE text

\* variant of ClassifyResponse: the success test reads `== 200`, so a 201
\* falls through to the generic branch
ClassifyResponseOnly200(status, text) ==
    IF status = 200
    THEN LET d == JsonDecode(text) IN
         IF d.ok THEN <<d.value, None>>
                 ELSE <<None, MsgUnknown("JSONDecodeError")>>
    ELSE IF status = 401 THEN <<None, MsgUnauthorized>>
    ELSE IF status = 429 THEN <<None, MsgRateLimited>>
    ELSE IF status = 500 THEN <<None, MsgServerError>>
    ELSE <<None, MsgApiError(status, ErrorDetail(text))>>

\* the status-code ladder inside the try block; response.json() raising on a
\* 200/201 body is caught by the trailing `except Exception`
ClassifyResponse(status, text) ==
    IF status \in {200, 201}
    THEN LET d == JsonDecode(text) IN
         IF d.ok THEN <<d.value, None>>
                 ELSE <<None, MsgUnknown("JSONDecodeError")>>
    ELSE IF status = 401 THEN <<None, MsgUnauthorized>>
    ELSE IF status = 429 THEN <<None, MsgRateLimited>>
    ELSE IF status = 500 THEN <<None, MsgServerError>>
    ELSE <<None, MsgApiError(status, ErrorDetail(text))>>

\* variant of ClassifyException: the ConnectionError clause comes first
ClassifyExceptionConnectionFirst(exc) ==
    IF IsConnectionError(exc) THEN <<None, MsgConnection>>
    ELSE IF IsTimeout(exc) THEN <<None, MsgTimeout>>
    ELSE <<None, MsgUnknown(exc)>>

\* the except clauses, in source order: Timeout, ConnectionError, Exception
ClassifyException(exc) ==
    IF IsTimeout(exc) THEN <<None, MsgTimeout>>
    ELSE IF IsConnectionError(exc) THEN <<None, MsgConnection>>
    ELSE <<None, MsgUnknown(exc)>>

Classify(outcome) ==
    IF outcome.type = "response"
    THEN ClassifyResponse(outcome.status, outcome.text)
    ELSE ClassifyException(outcome.exc)

\* variant of RequestBody: response.json() is evaluated outside the try
\* block, so the decoding fault of a 200/201 body leaves the function
RequestBodyJsonOutsideTry(key, method, outcome) ==
    IF key = ""
    THEN [result |-> <<None, MsgNotConfigured>>, net |-> FALSE, raised |-> FALSE, sent |-> 0]
    ELSE IF method \notin IssuingMethods
    THEN [result |-> <<None, MsgUnknown("UnboundLocalError")>>,
          net |-> FALSE, raised |-> FALSE, sent |-> 0]
    ELSE IF /\ outcome.type = "response"
            /\ outcome.status \in {200, 201}
            /\ ~JsonDecode(outcome.text).ok
    THEN [result |-> <<None, None>>, net |-> TRUE, raised |-> TRUE, sent |-> 1]
    ELSE [result |-> Classify(outcome), net |-> TRUE, raised |-> FALSE, sent |-> 1]

\* the body of make_api_request, run under credential key; outcome is what
\* the requests library produces if a request is issued.
\* the body sending the request a second time after a 500 or an exception
RequestBodyRetriesOnFailure(key, method, outcome) ==
    IF key = ""
    THEN [result |-> <<None, MsgNotConfigured>>, net |-> FALSE, raised |-> FALSE, sent |-> 0]
    ELSE IF method \notin IssuingMethods
    THEN [result |-> <<None, MsgUnknown("UnboundLocalError")>>,
          net |-> FALSE, raised |-> FALSE, sent |-> 0]
    ELSE [result |-> Classify(outcome), net |-> TRUE, raised |-> FALSE,
          sent |-> IF outcome.type = "exception" \/ outcome.status = 500 THEN 2 ELSE 1]

\* raised: an exception left the function; net: a request was issued;
\* sent: the number of requests issued (one requests.get/post/put/delete call
\* on the one branch of the method ladder that is taken, and no loop)
RequestBody(key, method, outcome) ==
    IF key = ""
    THEN [result |-> <<None, MsgNotConfigured>>, net |-> FALSE, raised |-> FALSE, sent |-> 0]
    ELSE IF method \notin IssuingMethods
    THEN [result |-> <<None, MsgUnknown("UnboundLocalError")>>,
          net |-> FALSE, raised |-> FALSE, sent |-> 0]
    ELSE [result |-> Classify(outcome), net |-> TRUE, raised |-> FALSE, sent |-> 1]


\* ------------------------------------------------------------------- state
VARIABLES
    api_key,        \* st.session_state.api_key of each session
    profiles,       \* st.session_state.profiles of each session
    accounts,       \* st.session_state.accounts of each session
    last_refresh,   \* st.session_state.last_refresh of each session (-1: None)
    cache,          \* the st.cache_data store of make_api_request (one per process)
    now,            \* the clock, in seconds
    steps,          \* script runs started so far
    switches,       \* times a run in progress has been overtaken by another session
    run,            \* per session: the script run in progress (the widget operated,
                    \* the session state it started from, and what the accesses to
                    \* the shared state it has made so far gave it)
    log,            \* history: the make_api_request calls that have returned in the
                    \* run of the session that stepped last
    lastCall,       \* history: per signature, the latest call that returned since the
                    \* cache was last cleared
    stored,         \* history: the number of values the store has taken so far
    test_drawn,     \* per session: the page on which the session's latest run drew the
                    \* "Run Connection Test" button ("" when it drew none)
    ui,             \* history: what the run of the session that stepped last has done
                    \* and shown so far, and whether it has ended
    remote,         \* the outcomes the remote API produces in this behaviour
    origin          \* history, per session: the credential the session held when it
                    \* loaded its profiles and its accounts, the URL of an upload
                    \* that succeeded with no post submitted since, and the
                    \* signatures the store held when the session's credential last
                    \* changed and that the session has not called since

vars == <<api_key, profiles, accounts, last_refresh, cache, now, steps, switches, run, log, lastCall,
          stored, test_drawn, ui, remote, origin>>

\* the arguments st.cache_data hashes: every parameter of make_api_request
\* (use_cache is never passed by a caller and keeps its default)
Sig(endpoint, method, data, params, files) ==
    [endpoint |-> endpoint, method |-> method, data |-> data,
     params |-> params, files |-> files]

NoArg == <<>>

Get(endpoint) == Sig(endpoint, "GET", NoArg, NoArg, NoArg)

\* variant of Fresh: the age is taken in milliseconds against a ttl in seconds
FreshMillis(entry, t) == (t - entry.ts) * 1000 < TTL

\* variant of Fresh: an entry whose age equals the ttl is still served
FreshInclusive(entry, t) == t - entry.ts <= TTL

\* st.cache_data(ttl=300): an entry is served while its age is below the ttl
Fresh(entry, t) == t - entry.ts < TTL

CacheHit(c, sig, t) == sig \in DOMAIN c /\ Fresh(c[sig], t)

\* the entry st.cache_data keeps for a call that returned: any returned
\* value is stored, the (None, error) pairs included (for the history, by:
\* the credential of the session whose call produced the value, seq: the
\* number of values the store has taken, this one included)
CacheStore(c, sig, result, t, key, seq) ==
    [x \in DOMAIN c \cup {sig} |->
        IF x = sig THEN [value |-> result, ts |-> t, by |-> key, seq |-> seq] ELSE c[x]]

\* placeholder recorded when no request was issued
NoOutcome == [type |-> "none", status |-> 0, text |-> "", exc |-> ""]

\* for the history: what the call q (its session, that session's key, its
\* arguments) finds when st.cache_data looks its arguments up at time t.
\* cachedAtChange: the store held an entry of the arguments when the
\* session's credential last changed, and this is the session's first call
\* with them since; changeSeq: the values the store had taken by then;
\* seq: the values the store has taken now
Found(q, t) ==
    [sess |-> q.sess, key |-> q.key, sig |-> q.sig, time |-> t,
     hadEntry   |-> q.sig \in DOMAIN cache,
     entryTs    |-> IF q.sig \in DOMAIN cache THEN cache[q.sig].ts ELSE -1,
     hadPrev    |-> q.sig \in DOMAIN lastCall,
     prevTime   |-> IF q.sig \in DOMAIN lastCall THEN lastCall[q.sig].time ELSE -1,
     prevResult |-> IF q.sig \in DOMAIN lastCall THEN lastCall[q.sig].result
                    ELSE <<None, None>>,
     prevNet    |-> IF q.sig \in DOMAIN lastCall THEN lastCall[q.sig].net ELSE FALSE,
     cachedAtChange |-> q.sig \in q.changed.sigs,
     changeSeq  |-> q.changed.seq,
     seq        |-> stored,
     waited     |-> FALSE]

\* the record of a call that returned at time t: time is when it was issued
\* (its lookup), doneAt when it returned, waited whether it waited for a call
\* in flight, servedTs and servedSeq the ts and seq of the entry it was
\* served from (-1 when it was not served from the store)
Returns(pre, result, net, hit, raised, sent, fetchKey, outcome, t, servedTs, servedSeq) ==
    [sess |-> pre.sess, key |-> pre.key, sig |-> pre.sig, time |-> pre.time,
     result |-> result, net |-> net, hit |-> hit, raised |-> raised, sent |-> sent,
     fetchKey |-> fetchKey, outcome |-> outcome, doneAt |-> t,
     hadEntry |-> pre.hadEntry, entryTs |-> pre.entryTs, hadPrev |-> pre.hadPrev,
     prevTime |-> pre.prevTime, prevResult |-> pre.prevResult, prevNet |-> pre.prevNet,
     cachedAtChange |-> pre.cachedAtChange, changeSeq |-> pre.changeSeq, seq |-> pre.seq,
     waited |-> pre.waited, servedTs |-> servedTs, servedSeq |-> servedSeq]

\* lastCall once the call rec has returned
Called(rec) ==
    [x \in DOMAIN lastCall \cup {rec.sig} |->
        IF x = rec.sig THEN [time |-> rec.time, result |-> rec.result, net |-> rec.net]
        ELSE lastCall[x]]

\* what one access to the shared state gives the run that makes it (item),
\* whether the item takes the place of the run's latest one, and the shared
\* state the access leaves
Effect(item, replace, c, lc, n, t) ==
    [item |-> item, replace |-> replace, cache |-> c, lastCall |-> lc, stored |-> n,
     now |-> t]

\* st.cache_data.clear() of a run
Cleared ==
    Effect([kind |-> "clear", time |-> now], FALSE, <<>>, <<>>, stored, now)

\* the lock st.cache_data holds while the function runs for the arguments
\* sig: some run has a call with them in flight
Locked(sig) ==
    \E s \in Sessions :
        /\ run[s].active
        /\ run[s].got # <<>>
        /\ run[s].got[Len(run[s].got)].kind = "sent"
        /\ run[s].got[Len(run[s].got)].rec.sig = sig

\* st.cache_data reads the store for the call pre: it answers from a fresh
\* entry of the arguments; otherwise it takes the lock and the function
\* body starts
Read(pre, replace) ==
    IF CacheHit(cache, pre.sig, now)
    THEN LET e   == cache[pre.sig]
             rec == Returns(pre, e.value, FALSE, TRUE, FALSE, 0, e.by, NoOutcome, now,
                            e.ts, e.seq)
         IN  Effect([kind |-> "call", time |-> now, rec |-> rec], replace, cache,
                    Called(rec), stored, now)
    ELSE Effect([kind |-> "sent", time |-> now, rec |-> pre], replace, cache, lastCall,
                stored, now)

\* the decorated make_api_request is called: st.cache_data reads its store,
\* and a call that misses while the lock of its arguments is held waits
Lookup(q) ==
    LET pre == Found(q, now)
    IN  IF ~CacheHit(cache, q.sig, now) /\ Locked(q.sig)
        THEN Effect([kind |-> "blocked", time |-> now, rec |-> pre], FALSE, cache,
                    lastCall, stored, now)
        ELSE Read(pre, FALSE)

\* a call that waited goes on once the lock is free: it reads the store
\* again
Acquire(pre) ==
    IF Locked(pre.sig) THEN {} ELSE {Read([pre EXCEPT !.waited = TRUE], TRUE)}

\* the function body has run under the credential of the calling session,
\* outcome being what the requests library produced if a request was issued:
\* st.cache_data stores what the function returns (nothing when it raises),
\* whatever has happened to the store since the lookup
Complete(pre, outcome) ==
    LET body == RequestBody(pre.key, pre.sig.method, outcome)
        rec  == Returns(pre, body.result, body.net, FALSE, body.raised, body.sent, pre.key,
                        IF body.net THEN outcome ELSE NoOutcome, now, -1, -1)
    IN  IF body.raised
        THEN Effect([kind |-> "call", time |-> now, rec |-> rec], TRUE, cache, Called(rec),
                    stored, now)
        ELSE Effect([kind |-> "call", time |-> now, rec |-> rec], TRUE,
                    CacheStore(cache, pre.sig, body.result, now, pre.key, stored + 1),
                    Called(rec), stored + 1, now)

\* the outcomes of the requests library for a call that missed the cache:
\* those of the remote API when the body issues a request
Outcomes(pre) ==
    IF pre.key # "" /\ pre.sig.method \in IssuingMethods THEN remote ELSE {NoOutcome}

\* time.sleep(): the run goes on once the clock has reached q.until
Slept(q) ==
    LET t == IF now >= q.until THEN now ELSE q.until
    IN  Effect([kind |-> "slept", time |-> t], FALSE, cache, lastCall, stored, t)

\* the access to the shared state a run is waiting to make
Perform(q) ==
    CASE q.op = "clear"    -> {Cleared}
      [] q.op = "lookup"   -> {Lookup(q)}
      [] q.op = "acquire"  -> Acquire(q.pre)
      [] q.op = "complete" -> {Complete(q.pre, o) : o \in Outcomes(q.pre)}
      [] q.op = "sleep"    -> {Slept(q)}

\* nothing loaded or uploaded yet
NoOrigin ==
    [profiles |-> "", accounts |-> "", media |-> None, changed |-> [sigs |-> {}, seq |-> 0]]

\* nothing run yet
NoUi ==
    [op |-> "", sess |-> "", form |-> <<>>, rets |-> <<>>, shown |-> <<>>, done |-> TRUE,
     prior |-> None]

\* no run in progress (no widget operated)
Idle ==
    [active |-> FALSE,
     inp |-> [op |-> "", key |-> "", page |-> "Dashboard", form |-> <<>>, pick |-> <<>>],
     start |-> <<>>, got |-> <<>>]

\* outcomes of the remote API explored by the stateful specification
NetOutcomes ==
    {Response(200, "{A}"), Response(201, "{B}"), Response(500, "<html>")}

\* answers of the remote API: a body with the lists and a failure
FrameOutcomes == {Response(200, "{A}"), Response(500, "<html>")}

\* ------------------------------------------------------------- script runs
\* the white-space characters str.strip() removes: the code points for
\* which str.isspace() is true
Whitespace ==
    (9..13) \cup (28..32) \cup {133, 160, 5760} \cup (8192..8202)
        \cup {8232, 8233, 8239, 8287, 12288}

\* str.strip() on a text
RECURSIVE LStrip(_)
LStrip(str) ==
    IF str # <<>> /\ Head(str) \in Whitespace THEN LStrip(Tail(str)) ELSE str

RECURSIVE RStrip(_)
RStrip(str) ==
    IF str # <<>> /\ str[Len(str)] \in Whitespace
    THEN RStrip(SubSeq(str, 1, Len(str) - 1)) ELSE str

Strip(str) == RStrip(LStrip(str))

\* the run r of a session at its start: the session's key and lists, the
\* value the latest loader returned, media_url (the local of show_posts, None
\* until an upload of this run succeeds), what the run has been given so far
\* (got) and how much of it the code has used (pos), the time of the latest
\* access (t), and for the history the widget operated, the form, every
\* loader's return value, every st.error message, the calls that returned,
\* and the upload pending when a post was submitted.  halt: "" while the
\* code runs, "wait" at an access the run has not made yet (pending), "end"
\* after return, st.stop() or the run st.rerun() asked for, "raise" while an
\* exception (exc) is on its way to the handler around main().  test: the
\* handler has drawn the "Run Connection Test" button.  cached and stored:
\* the signatures the store held and the values it had taken when the run
\* started
StartRun(r) ==
    [key |-> r.start.key, profiles |-> r.start.profiles, accounts |-> r.start.accounts,
     last_refresh |-> r.start.last_refresh, origin |-> r.start.origin,
     cached |-> r.start.cached, stored |-> r.start.stored,
     ret |-> <<FALSE, None>>, media_url |-> None,
     got |-> r.got, pos |-> 1, t |-> r.start.t, halt |-> "", pending |-> [op |-> ""],
     exc |-> "", test |-> FALSE,
     op |-> r.inp.op, form |-> r.inp.form, rets |-> <<>>, shown |-> <<>>, log |-> <<>>,
     prior |-> None]

\* the run of session s that starts now with widget op operated: key is the
\* content of the API Key input, page the selected page, form what the
\* page's form holds and pick the account selected on a Reddit page
Begin(s, op, key, page, form, pick) ==
    [active |-> TRUE,
     inp |-> [op |-> op, key |-> key, page |-> page, form |-> form, pick |-> pick],
     start |-> [key |-> api_key[s], profiles |-> profiles[s], accounts |-> accounts[s],
                last_refresh |-> last_refresh[s], origin |-> origin[s], t |-> now,
                cached |-> DOMAIN cache, stored |-> stored],
     got |-> <<>>]

Halted(P) == P.halt # ""

\* name = value, then the statements that follow it
With(value, Rest(_)) == Rest(value)

\* the run stops at an access it has not made yet
Wait(P, q) == [P EXCEPT !.halt = "wait", !.pending = q]

\* the code has made all the accesses the run has made
Caught(P) == P.pos > Len(P.got)

\* the code goes past an access the run has made
Past(P) == [P EXCEPT !.pos = @ + 1, !.t = P.got[P.pos].time]

\* return from the page (main() ends with it) or st.stop()
End(P) == IF Halted(P) THEN P ELSE [P EXCEPT !.halt = "end"]

\* st.error(text) with arg interpolated
Show(P, text, arg) ==
    IF Halted(P) THEN P ELSE [P EXCEPT !.shown = Append(@, [text |-> text, arg |-> arg])]

\* an exception e is raised under main(): the code up to the handler around
\* main() is skipped
Raise(P, e) ==
    IF Halted(P) THEN P ELSE [P EXCEPT !.halt = "raise", !.exc = e]

\* st.cache_data.clear() in a run
Clear(P) ==
    IF Halted(P) THEN P
    ELSE IF Caught(P) THEN Wait(P, [op |-> "clear"])
    ELSE Past(P)

\* time.sleep(secs) in a run
Sleep(P, secs) ==
    IF Halted(P) THEN P
    ELSE IF Caught(P) THEN Wait(P, [op |-> "sleep", until |-> P.t + secs])
    ELSE Past(P)

\* one call of the decorated make_api_request in a run of session s: the
\* lookup, the wait for a call in flight with the same arguments, and after
\* a miss the function body, whose return the run waits for
MakeApiRequest(P, s, sig) ==
    IF Halted(P) THEN P
    ELSE IF Caught(P)
    THEN Wait(P, [op |-> "lookup", sess |-> s, key |-> P.key, sig |-> sig,
                  changed |-> P.origin.changed])
    ELSE IF P.got[P.pos].kind = "blocked"
    THEN Wait(P, [op |-> "acquire", pre |-> P.got[P.pos].rec])
    ELSE IF P.got[P.pos].kind = "sent"
    THEN Wait(P, [op |-> "complete", pre |-> P.got[P.pos].rec])
    ELSE LET rec == P.got[P.pos].rec
             Q   == [Past(P) EXCEPT !.log = Append(@, rec),
                                    !.origin.changed.sigs = @ \ {sig}]
         IN  IF rec.raised THEN Raise(Q, "JSONDecodeError") ELSE Q

\* the result of the latest call of the run
Returned(P) == P.log[Len(P.log)].result

\* the return value of a loader; for the history, with the session's list
\* before and after the loader ran, the position of its request in the log,
\* the time, and on success the credential the session held when it loaded
\* the list
Ret(P, loader, ok, error, before) ==
    [P EXCEPT !.ret = <<ok, error>>,
              !.rets = Append(@, [loader |-> loader, ok |-> ok, error |-> error,
                                  before |-> before,
                                  after |-> IF loader = "profiles" THEN P.profiles
                                            ELSE P.accounts,
                                  call |-> Len(P.log), at |-> P.t]),
              !.origin = IF ok THEN [@ EXCEPT ![loader] = P.log[Len(P.log)].key]
                         ELSE @]

\* dict.get(key, []) for the list-valued keys
GetList(data, key) ==
    IF key \notin data.keys THEN <<>>
    ELSE CASE key = "profiles" -> data.profiles
           [] key = "accounts" -> data.accounts
           [] key = "files"    -> data.files
           [] key = "posts"    -> data.posts
           [] OTHER            -> <<>>

\* load_profiles() that empties the list when the request fails
LoadProfilesClearsOnFailure(P, s) ==
    With(MakeApiRequest(P, s, Get("/profiles")), LAMBDA Q :
        LET data  == Returned(Q)[1]
            error == Returned(Q)[2]
        IN  IF Halted(Q) THEN Q
            ELSE IF Truthy(data)
            THEN Ret([Q EXCEPT !.profiles = GetList(data, "profiles")], "profiles", TRUE, None,
                     P.profiles)
            ELSE Ret([Q EXCEPT !.profiles = <<>>], "profiles", FALSE, error, P.profiles))

\* load_profiles()
LoadProfiles(P, s) ==
    With(MakeApiRequest(P, s, Get("/profiles")), LAMBDA Q :
        LET data  == Returned(Q)[1]
            error == Returned(Q)[2]
        IN  IF Halted(Q) THEN Q
            ELSE IF Truthy(data)
            THEN Ret([Q EXCEPT !.profiles = GetList(data, "profiles")], "profiles", TRUE, None,
                     P.profiles)
            ELSE Ret(Q, "profiles", FALSE, error, P.profiles))

\* load_accounts()
LoadAccounts(P, s) ==
    With(MakeApiRequest(P, s, Get("/accounts")), LAMBDA Q :
        LET data  == Returned(Q)[1]
            error == Returned(Q)[2]
        IN  IF Halted(Q) THEN Q
            ELSE IF Truthy(data)
            THEN Ret([Q EXCEPT !.accounts = GetList(data, "accounts")], "accounts", TRUE, None,
                     P.accounts)
            ELSE Ret(Q, "accounts", FALSE, error, P.accounts))

\* a loader reported (False, error) with an error to show
LoadFailed(P) == ~P.ret[1] /\ Truthy(P.ret[2])

\* show_profiles() down to the form: profiles are loaded when the list is
\* empty, and the page returns when that fails
ProfilesTop(P, s) ==
    IF Halted(P) \/ P.profiles # <<>> THEN P
    ELSE With(LoadProfiles(P, s), LAMBDA Q :
             IF Halted(Q) THEN Q
             ELSE IF LoadFailed(Q)
             THEN End(Show(Q, "Failed to load profiles: {error}", Q.ret[2]))
             ELSE Q)

\* show_posts() down to the form: accounts are loaded when the list is empty
PostsTop(P, s) ==
    IF Halted(P) \/ P.accounts # <<>> THEN P
    ELSE With(LoadAccounts(P, s), LAMBDA Q :
             IF Halted(Q) THEN Q
             ELSE IF LoadFailed(Q)
             THEN End(Show(Q, "Failed to load accounts: {error}", Q.ret[2]))
             ELSE Q)

\* posts_data, error = make_api_request("/posts") and the message shown when
\* no posts came back with an error; the same code ends show_posts() and
\* show_dashboard()
PostsListing(P, s) ==
    With(MakeApiRequest(P, s, Get("/posts")), LAMBDA Q :
        LET posts_data == Returned(Q)[1]
            error      == Returned(Q)[2]
        IN  IF Halted(Q) THEN Q
            ELSE IF Truthy(posts_data) /\ GetList(posts_data, "posts") # <<>> THEN Q
            ELSE IF Truthy(error) THEN Show(Q, "Failed to load posts: {error}", error)
            ELSE Q)

\* show_calendar_view() below its controls: the request; the loop over the
\* posts, in which datetime.fromisoformat gives an aware datetime for a time
\* with a UTC offset ("Z" is replaced by "+00:00" first) and, "Show all
\* posts" being unticked, start_time < datetime.now() raises TypeError for
\* it, which `except ValueError` does not catch; the st.error when no posts
\* came back with an error
CalendarEvents(P, s) ==
    With(MakeApiRequest(P, s, Get("/posts")), LAMBDA Q :
        LET posts_data == Returned(Q)[1]
            error      == Returned(Q)[2]
            Offset(event_date) ==
                IF event_date.offset = "Z" THEN "+00:00" ELSE event_date.offset
        IN  IF Halted(Q) THEN Q
            ELSE IF Truthy(posts_data) /\ GetList(posts_data, "posts") # <<>>
            THEN IF \E i \in DOMAIN GetList(posts_data, "posts") :
                        Offset(GetList(posts_data, "posts")[i].scheduledFor) # ""
                 THEN Raise(Q, "can't compare offset-naive and offset-aware datetimes")
                 ELSE Q
            ELSE IF Truthy(error) THEN Show(Q, "Failed to load posts: {error}", error)
            ELSE Q)

\* the upload usage column: progress is current_uploads / upload_limit;
\* st.progress(progress) raises for a progress outside [0.0, 1.0], which the
\* handler around main() shows; else the st.warning / st.error, progress
\* being compared with 0.8 and then, in the elif, with 0.9 (for counts of
\* this size the float comparison progress > 0.8 is the integer comparison
\* 10 * current > 8 * limit)
UploadMessages(current, limit) ==
    IF ~limit.unlimited /\ limit.n > 0
    THEN IF current > limit.n
         THEN <<[text |-> "Application Error: {e}",
                 arg |-> Str("Progress Value has invalid value [0.0, 1.0]: {progress}",
                             0, "")]>>
         ELSE IF 10 * current > 8 * limit.n
         THEN <<[text |-> "Approaching upload limit!", arg |-> None]>>
         ELSE IF 10 * current > 9 * limit.n
         THEN <<[text |-> "Upload limit almost reached!", arg |-> None]>>
         ELSE <<>>
    ELSE <<>>

\* show_usage_stats(): the request; with data, the upload usage column
\* (uploads = usage_data.get('uploads', {}): without the key the count is 0
\* and the limit 'Unlimited'), where the exception of st.progress leaves
\* main(), and the profile usage column (a payload that carries "profiles"
\* carries a list, on which profiles.get('current', 0) raises); the
\* st.error when no data came back
ShowUsageStats(P, s) ==
    With(MakeApiRequest(P, s, Get("/usage-stats")), LAMBDA Q :
        LET usage_data == Returned(Q)[1]
            error      == Returned(Q)[2]
            shown      == IF "uploads" \in usage_data.keys
                          THEN UploadMessages(usage_data.uploads.current,
                                              usage_data.uploads.limit)
                          ELSE <<>>
        IN  IF Halted(Q) THEN Q
            ELSE IF Truthy(usage_data)
            THEN With(IF shown = <<>> THEN Q
                      ELSE IF shown[1].text = "Application Error: {e}"
                      THEN Raise(Q, shown[1].arg.text)
                      ELSE Show(Q, shown[1].text, shown[1].arg), LAMBDA U :
                     IF "profiles" \in usage_data.keys
                     THEN Raise(U, "'list' object has no attribute 'get'")
                     ELSE U)
            ELSE Show(Q, "Failed to load usage stats: {error}", error))

\* show_dashboard(): each list is loaded when it is empty (the page goes on
\* after a failure), then the usage and the posts requests
ShowDashboard(P, s) ==
    With(IF Halted(P) \/ P.profiles # <<>> THEN P
         ELSE With(LoadProfiles(P, s), LAMBDA Q :
                  IF LoadFailed(Q)
                  THEN Show(Q, "Failed to load profiles: {error}", Q.ret[2])
                  ELSE Q), LAMBDA A :
    With(IF Halted(A) \/ A.accounts # <<>> THEN A
         ELSE With(LoadAccounts(A, s), LAMBDA Q :
                  IF LoadFailed(Q)
                  THEN Show(Q, "Failed to load accounts: {error}", Q.ret[2])
                  ELSE Q), LAMBDA B :
    PostsListing(MakeApiRequest(B, s, Get("/usage-stats")), s)))

\* show_analytics(): one request, no message
ShowAnalytics(P, s) == MakeApiRequest(P, s, Get("/posts"))

\* reddit_accounts
RedditAccounts(accs) == {accs[i] : i \in {j \in DOMAIN accs : accs[j].platform = "reddit"}}

\* show_reddit_feed() and show_reddit_search() down to the controls: the
\* accounts are loaded when the list is empty, and the page returns when
\* that fails or when no account is a Reddit account
RedditTop(P, s) ==
    With(PostsTop(P, s), LAMBDA T :
        IF RedditAccounts(T.accounts) = {} THEN End(T) ELSE T)

\* the selected page with none of its buttons pressed; show_posts() stops
\* (st.stop()) at the platform selection when the session has no accounts
Draw(P, s, page) ==
    CASE page = "Dashboard"     -> ShowDashboard(P, s)
      [] page = "Profiles"      -> ProfilesTop(P, s)
      [] page = "Posts"         -> With(PostsTop(P, s), LAMBDA T :
                                       PostsListing(IF T.accounts = <<>> THEN End(T) ELSE T,
                                                    s))
      [] page = "Calendar View" -> CalendarEvents(P, s)
      [] page = "Reddit Feed"   -> RedditTop(P, s)
      [] page = "Reddit Search" -> RedditTop(P, s)
      [] page = "Usage Stats"   -> ShowUsageStats(P, s)
      [] page = "Analytics"     -> ShowAnalytics(P, s)

\* st.rerun(): the script runs once more with the widgets as they are and no
\* button pressed (the sidebar then makes no call, and a run that reruns
\* holds a key), and the run that asked for it goes no further
Rerun(P, s, inp) == End(Draw(P, s, inp.page))

ProfileData(name) == <<"profile", Strip(name)>>

\* seconds show_profiles() sleeps before st.rerun()
SleepProfile == 1

\* the "Create Profile" submission: validation with its messages, the POST,
\* and on a truthy result load_profiles(), time.sleep(1) and st.rerun()
SubmitProfile(P, s, inp) ==
    LET name == inp.form
    IN  IF Halted(P) THEN P
        ELSE IF Strip(name) = <<>> THEN Show(P, "Profile name is required", None)
        ELSE IF Len(Strip(name)) < 2
        THEN Show(P, "Profile name must be at least 2 characters", None)
        ELSE With(MakeApiRequest(P, s, Sig("/profiles", "POST", ProfileData(name),
                                           NoArg, NoArg)), LAMBDA Q :
                 IF Halted(Q) THEN Q
                 ELSE IF Truthy(Returned(Q)[1])
                 THEN Rerun(Sleep(LoadProfiles(Q, s), SleepProfile), s, inp)
                 ELSE Show(Q, "Failed to create profile: {error}", Returned(Q)[2]))

\* show_profiles()
ShowProfiles(P, s, inp) ==
    With(ProfilesTop(P, s), LAMBDA T :
        IF inp.op = "createProfile" THEN SubmitProfile(T, s, inp) ELSE T)

\* the "Upload Image" button: the POST to /media, and media_url set from the
\* first file of a truthy response
Uploaded(P, s, f) ==
    With(MakeApiRequest(P, s, Sig("/media", "POST", NoArg, NoArg, <<f>>)), LAMBDA Q :
        LET media_response == Returned(Q)[1]
            media_error    == Returned(Q)[2]
        IN  IF Halted(Q) THEN Q
            ELSE IF Truthy(media_response) /\ GetList(media_response, "files") # <<>>
            THEN LET url == Str(GetList(media_response, "files")[1], 0, "")
                 IN  [Q EXCEPT !.media_url = url, !.origin.media = url]
            ELSE Show(Q, "Failed to upload image: {media_error}", media_error))

\* the entry appended to selected_accounts for a ticked account
PlatformData(account, form) ==
    LET reddit == account.platform = "reddit"
        psd    == reddit /\ form.subreddit # ""
        url    == IF form.type = "link" THEN form.url ELSE ""
    IN  [platform |-> account.platform, accountId |-> account.id,
         hasPSD |-> psd,
         subreddit |-> IF psd THEN form.subreddit ELSE "",
         type |-> IF psd THEN form.type ELSE "",
         url |-> IF psd THEN url ELSE ""]

\* platform_groups, flattened: the accounts grouped by platform, the
\* platforms in the order of their first account (a dict keeps insertion
\* order), the accounts of a platform in the order of the list
RECURSIVE PlatformGroups(_)
PlatformGroups(accs) ==
    IF accs = <<>> THEN <<>>
    ELSE LET Same(a) == a.platform = Head(accs).platform
             Other(a) == a.platform # Head(accs).platform
         IN  SelectSeq(accs, Same) \o PlatformGroups(SelectSeq(accs, Other))

\* selected_accounts: the entries of the ticked accounts of the session's
\* list, platform by platform
SelectedAccounts(accs, form) ==
    LET IsTicked(a) == a.id \in form.ticked
        ticked == SelectSeq(PlatformGroups(accs), IsTicked)
    IN  [i \in 1..Len(ticked) |-> PlatformData(ticked[i], form)]

\* the validation without its Reddit-specific loop
PostErrorsNoReddit(content, selected) ==
    (IF Strip(content) = <<>> THEN <<"Post content is required">> ELSE <<>>)
    \o (IF selected = <<>> THEN <<"At least one platform must be selected">> ELSE <<>>)

\* the messages of the Reddit-specific validation loop
RECURSIVE RedditErrors(_)
RedditErrors(selected) ==
    IF selected = <<>> THEN <<>>
    ELSE LET d == Head(selected)
         IN  (IF d.platform = "reddit" /\ d.subreddit = ""
              THEN <<"Subreddit is required for Reddit posts">> ELSE <<>>)
             \o (IF d.platform = "reddit" /\ d.type = "link" /\ d.url = ""
                 THEN <<"URL is required for Reddit link posts">> ELSE <<>>)
             \o RedditErrors(Tail(selected))

\* errors of the "Schedule Post" validation
PostErrors(content, selected) ==
    (IF Strip(content) = <<>> THEN <<"Post content is required">> ELSE <<>>)
    \o (IF selected = <<>> THEN <<"At least one platform must be selected">> ELSE <<>>)
    \o RedditErrors(selected)

\* data["mediaItems"], set only for a truthy media_url
MediaItems(media_url) ==
    IF Truthy(media_url) THEN <<[type |-> "image", url |-> media_url]>> ELSE <<>>

\* the JSON body of the POST to /posts
PostData(form, selected, media_url) ==
    <<"post", Strip(form.content), selected, form.scheduledFor, MediaItems(media_url)>>

\* only errors[0] is shown
ShowErrorsFirstOnly(P, errors) ==
    IF errors = <<>> THEN P ELSE Show(P, "{error}", Str(Head(errors), 0, ""))

\* for error in errors: st.error(f"<cross mark> {error}"); the emoji that
\* prefixes the messages is left out of the templates
RECURSIVE ShowErrors(_, _)
ShowErrors(P, errors) ==
    IF errors = <<>> THEN P
    ELSE ShowErrors(Show(P, "{error}", Str(Head(errors), 0, "")), Tail(errors))

\* seconds show_posts() sleeps before st.rerun()
SleepPost == 2

\* the "Schedule Post" submission: validation, then either the messages or
\* the POST to /posts, and on a truthy result time.sleep(2) and st.rerun()
SubmitPost(P, s, inp) ==
    LET form     == inp.form
        selected == SelectedAccounts(P.accounts, form)
        errors   == PostErrors(form.content, selected)
        S        == [P EXCEPT !.prior = P.origin.media]
    IN  IF Halted(P) THEN P
        ELSE IF errors # <<>> THEN ShowErrors(P, errors)
        ELSE With(MakeApiRequest(S, s, Sig("/posts", "POST",
                                           PostData(form, selected, P.media_url),
                                           NoArg, NoArg)), LAMBDA Q :
                 LET R == [Q EXCEPT !.origin.media = None]
                 IN  IF Halted(Q) THEN Q
                     ELSE IF Truthy(Returned(Q)[1]) THEN Rerun(Sleep(R, SleepPost), s, inp)
                     ELSE Show(R, "Failed to schedule post: {error}", Returned(Q)[2]))

\* show_posts(): the accounts, the upload when "Upload Image" is pressed,
\* st.stop() at the platform selection when the session has no accounts, the
\* submission when "Schedule Post" is pressed, and the listing
ShowPosts(P, s, inp) ==
    With(PostsTop(P, s), LAMBDA T :
    With(IF inp.op = "uploadMedia" THEN Uploaded(T, s, inp.form) ELSE T, LAMBDA U :
    With(IF U.accounts = <<>> THEN End(U) ELSE U, LAMBDA A :
    PostsListing(IF inp.op = "createPost" THEN SubmitPost(A, s, inp) ELSE A, s))))

\* show_calendar_view(): "Refresh Calendar" clears the cache and asks for a
\* rerun; otherwise the request and the events
ShowCalendarView(P, s, inp) ==
    IF inp.op = "refreshCalendar" THEN Rerun(Clear(P), s, inp)
    ELSE CalendarEvents(P, s)


\* ------------------------------------------------------- the Reddit pages
\* the options of the "Time Filter" selectbox
TimeFilters == {"hour", "day", "week", "month", "year", "all"}

\* the options of the "Sort" selectbox of the feed and of the search
FeedSorts == {"hot", "new", "top", "rising"}
SearchSorts == {"relevance", "new", "hot", "top", "comments"}

\* time_filter with the selectbox drawn for every sort, "week" preselected
TimeFilterDefaultWeek(form) ==
    IF form.sort = "top" THEN Str(form.time, 0, "") ELSE Str("week", 0, "")

\* time_filter: the selectbox is drawn, and read, only when the sort is "top"
TimeFilter(form) ==
    IF form.sort = "top" THEN Str(form.time, 0, "") ELSE None

\* the params dict of a request: keys are the keys present
Params(keys, form, account, tf) ==
    [keys |-> keys,
     accountId |-> account.id,
     q |-> IF "q" \in keys THEN Strip(form.query) ELSE <<>>,
     sort |-> form.sort,
     limit |-> form.limit,
     subreddit |-> IF "subreddit" \in keys THEN Strip(form.subreddit) ELSE <<>>,
     author |-> IF "author" \in keys THEN Strip(form.author) ELSE <<>>,
     t |-> IF "t" \in keys THEN tf ELSE None]

\* params of the feed request
FeedParams(form, account) ==
    LET tf == TimeFilter(form)
    IN  Params({"accountId", "sort", "limit"}
                  \cup (IF Strip(form.subreddit) # <<>> THEN {"subreddit"} ELSE {})
                  \cup (IF Truthy(tf) THEN {"t"} ELSE {}),
               form, account, tf)

\* params of the search request
SearchParams(form, account) ==
    LET tf == TimeFilter(form)
    IN  Params({"accountId", "q", "sort", "limit"}
                  \cup (IF Strip(form.subreddit) # <<>> THEN {"subreddit", "restrict_sr"} ELSE {})
                  \cup (IF Strip(form.author) # <<>> THEN {"author"} ELSE {})
                  \cup (IF Truthy(tf) THEN {"t"} ELSE {})
                  \cup (IF form.nsfw THEN {"include_over_18"} ELSE {}),
               form, account, tf)

\* if data: ... else: st.error(text) after the request of run Q
Failed(Q, text) ==
    IF Halted(Q) THEN Q
    ELSE IF Truthy(Returned(Q)[1]) THEN Q ELSE Show(Q, text, Returned(Q)[2])

\* show_reddit_feed(): the request when "Load Feed" is pressed
ShowRedditFeed(P, s, inp) ==
    With(RedditTop(P, s), LAMBDA T :
        IF inp.op = "redditFeed"
        THEN Failed(MakeApiRequest(T, s, Sig("/reddit/feed", "GET", NoArg,
                                             <<FeedParams(inp.form, inp.pick)>>, NoArg)),
                    "Failed to load feed: {error}")
        ELSE T)

\* show_reddit_search(): the request when "Search" is pressed and the query
\* holds more than white space
ShowRedditSearch(P, s, inp) ==
    With(RedditTop(P, s), LAMBDA T :
        IF inp.op = "redditSearch" /\ Strip(inp.form.query) # <<>>
        THEN Failed(MakeApiRequest(T, s, Sig("/reddit/search", "GET", NoArg,
                                             <<SearchParams(inp.form, inp.pick)>>, NoArg)),
                    "Search failed: {error}")
        ELSE T)

\* ------------------------------------------------- the sidebar's Refresh Data
\* Python's "a or b"
Or(a, b) == IF Truthy(a) THEN a ELSE b

\* the two loaders, the second skipped when the first fails
RefreshLoadsStopAtFailure(P, s) ==
    With(LoadProfiles(P, s), LAMBDA Q :
        IF Halted(Q) \/ Q.ret[1]
        THEN With(LoadAccounts(Q, s), LAMBDA R :
                 [run |-> R, profiles_success |-> Q.ret[1], profiles_error |-> Q.ret[2],
                  accounts_success |-> R.ret[1], accounts_error |-> R.ret[2]])
        ELSE [run |-> Q, profiles_success |-> FALSE, profiles_error |-> Q.ret[2],
              accounts_success |-> FALSE, accounts_error |-> None])

\* profiles_success, profiles_error = load_profiles()
\* accounts_success, accounts_error = load_accounts()
RefreshLoads(P, s) ==
    With(LoadProfiles(P, s), LAMBDA Q :
    With(LoadAccounts(Q, s), LAMBDA R :
        [run |-> R, profiles_success |-> Q.ret[1], profiles_error |-> Q.ret[2],
         accounts_success |-> R.ret[1], accounts_error |-> R.ret[2]]))

\* the button with "or" where the code has "and"
RefreshButtonEitherSucceeds(P, s) ==
    IF Halted(P) THEN P
    ELSE IF P.key = "" THEN Show(P, "Please enter your API key first", None)
    ELSE With(RefreshLoads(P, s), LAMBDA L :
             IF Halted(L.run) THEN L.run
             ELSE IF L.profiles_success \/ L.accounts_success
             THEN [L.run EXCEPT !.last_refresh = L.run.t]
             ELSE Show(L.run, "Refresh failed: {error_msg}",
                       Or(L.profiles_error, L.accounts_error)))

\* the "Refresh Data" button of the sidebar
RefreshButton(P, s) ==
    IF Halted(P) THEN P
    ELSE IF P.key = "" THEN Show(P, "Please enter your API key first", None)
    ELSE With(RefreshLoads(P, s), LAMBDA L :
             IF Halted(L.run) THEN L.run
             ELSE IF L.profiles_success /\ L.accounts_success
             THEN [L.run EXCEPT !.last_refresh = L.run.t]
             ELSE Show(L.run, "Refresh failed: {error_msg}",
                       Or(L.profiles_error, L.accounts_error)))

\* ------------------------------------------------------ the Validate button
\* the return value of validate_api_key, kept for the history like a
\* loader's, with the position of its request in the log (0: none made)
Verdict(P, is_valid, message, call) ==
    [P EXCEPT !.rets = Append(@, [loader |-> "validate", ok |-> is_valid,
                                  error |-> message,
                                  before |-> P.profiles, after |-> P.profiles,
                                  call |-> call, at |-> P.t])]

\* validate_api_key keeping the profiles of the response it validated with
ValidateApiKeyStoresProfiles(P, s) ==
    IF Halted(P) THEN P
    ELSE IF P.key = "" THEN Verdict(P, FALSE, Str("No API key provided", 0, ""), 0)
    ELSE With(MakeApiRequest(P, s, Get("/profiles")), LAMBDA Q :
             LET data  == Returned(Q)[1]
                 error == Returned(Q)[2]
             IN  IF Halted(Q) THEN Q
                 ELSE IF data # None
                 THEN Verdict([Q EXCEPT !.profiles = GetList(data, "profiles")],
                              TRUE, Str("API key is valid", 0, ""), Len(Q.log))
                 ELSE Verdict(Q, FALSE, error, Len(Q.log)))

\* validate_api_key(): valid when the /profiles request returned any data
ValidateApiKey(P, s) ==
    IF Halted(P) THEN P
    ELSE IF P.key = "" THEN Verdict(P, FALSE, Str("No API key provided", 0, ""), 0)
    ELSE With(MakeApiRequest(P, s, Get("/profiles")), LAMBDA Q :
             LET data  == Returned(Q)[1]
                 error == Returned(Q)[2]
             IN  IF Halted(Q) THEN Q
                 ELSE IF data # None
                 THEN Verdict(Q, TRUE, Str("API key is valid", 0, ""), Len(Q.log))
                 ELSE Verdict(Q, FALSE, error, Len(Q.log)))

\* the "Validate API Key" button of the sidebar: st.success(message) or
\* st.error(message)
ValidateButton(P, s) ==
    With(ValidateApiKey(P, s), LAMBDA Q :
        LET v == Q.rets[Len(Q.rets)]
        IN  IF Halted(Q) THEN Q
            ELSE IF v.ok THEN Q ELSE Show(Q, "{message}", v.error))

\* ------------------------------------------------------------------ main()
\* the options of the "Select Page" selectbox; "Dashboard", the first, is
\* selected until the user selects another
AllPages ==
    {"Dashboard", "Profiles", "Posts", "Calendar View", "Reddit Feed", "Reddit Search",
     "Usage Stats", "Analytics"}

\* the page routing at the end of main()
ShowPage(P, s, inp) ==
    CASE inp.page = "Dashboard"     -> ShowDashboard(P, s)
      [] inp.page = "Profiles"      -> ShowProfiles(P, s, inp)
      [] inp.page = "Posts"         -> ShowPosts(P, s, inp)
      [] inp.page = "Calendar View" -> ShowCalendarView(P, s, inp)
      [] inp.page = "Reddit Feed"   -> ShowRedditFeed(P, s, inp)
      [] inp.page = "Reddit Search" -> ShowRedditSearch(P, s, inp)
      [] inp.page = "Usage Stats"   -> ShowUsageStats(P, s)
      [] inp.page = "Analytics"     -> ShowAnalytics(P, s)

\* variant of main(): the key is replaced and the cache is left alone
MainKeepsCache(P, s, inp) ==
    IF Halted(P) THEN P
    ELSE
    With(IF inp.key # P.key
         THEN [P EXCEPT !.key = inp.key,
                        !.origin.changed = [sigs |-> P.cached, seq |-> P.stored]]
         ELSE P, LAMBDA K :
    With(IF K.key # "" /\ inp.op = "validate" THEN ValidateButton(K, s) ELSE K, LAMBDA V :
    With(IF inp.op = "refresh" THEN RefreshButton(V, s) ELSE V, LAMBDA R :
    IF Halted(R) \/ R.key = "" THEN R ELSE ShowPage(R, s, inp))))

\* main(): when the API Key input holds a value other than the session's key
\* the key is replaced and st.cache_data.clear() empties the store; the
\* "Validate API Key" button (drawn while the session holds a key) and the
\* "Refresh Data" button; the welcome page without a key, else the selected
\* page
Main(P, s, inp) ==
    IF Halted(P) THEN P
    ELSE
    With(IF inp.key # P.key
         THEN Clear([P EXCEPT !.key = inp.key,
                              !.origin.changed = [sigs |-> P.cached, seq |-> P.stored]])
         ELSE P, LAMBDA K :
    With(IF K.key # "" /\ inp.op = "validate" THEN ValidateButton(K, s) ELSE K, LAMBDA V :
    With(IF inp.op = "refresh" THEN RefreshButton(V, s) ELSE V, LAMBDA R :
    IF Halted(R) \/ R.key = "" THEN R ELSE ShowPage(R, s, inp))))

\* test_api_connection(): the "Run Connection Test" button, and when it is
\* pressed the four requests, then one st.error per request that returned
\* no data
TestApiConnection(P, s, inp) ==
    IF Halted(P) \/ inp.op # "testConnection" THEN P
    ELSE With(MakeApiRequest(MakeApiRequest(MakeApiRequest(MakeApiRequest(
                  P, s, Get("/profiles")), s, Get("/accounts")), s, Get("/posts")),
                  s, Get("/usage-stats")), LAMBDA Q :
             LET n == Len(Q.log)
                 Result(R, i, text) ==
                     IF Q.log[i].result[1] # None THEN R
                     ELSE Show(R, text, Q.log[i].result[2])
             IN  IF Halted(Q) THEN Q
                 ELSE Result(Result(Result(Result(Q,
                          n - 3, "Profiles: {error}"),
                          n - 2, "Accounts: {error}"),
                          n - 1, "Posts: {error}"),
                          n, "Usage Stats: {error}"))

\* the handler around main(): an exception that left main() is shown, and
\* for a session that holds a key test_api_connection() runs
ErrorBoundary(P, s, inp) ==
    IF P.halt # "raise" THEN P
    ELSE With(Show([P EXCEPT !.halt = ""], "Application Error: {e}", Str(P.exc, 0, "")),
              LAMBDA Q :
             IF Q.key = "" THEN End(Q)
             ELSE End(TestApiConnection([Q EXCEPT !.test = TRUE], s, inp)))

\* what the session's thread executes for the run r: main() under its
\* handler, or for a call of make_api_request itself that call
Script(s, r) ==
    IF r.inp.op = "make_api_request" THEN MakeApiRequest(StartRun(r), s, r.inp.form)
    ELSE ErrorBoundary(Main(StartRun(r), s, r.inp), s, r.inp)

\* the run r of session s has got as far as Q: what it has written to the
\* session's state so far
Publish(s, r, Q) ==
    /\ api_key' = [api_key EXCEPT ![s] = Q.key]
    /\ profiles' = [profiles EXCEPT ![s] = Q.profiles]
    /\ accounts' = [accounts EXCEPT ![s] = Q.accounts]
    /\ last_refresh' = [last_refresh EXCEPT ![s] = Q.last_refresh]
    /\ origin' = [origin EXCEPT ![s] = Q.origin]
    /\ test_drawn' = [test_drawn EXCEPT ![s] = IF Q.test THEN r.inp.page ELSE ""]
    /\ log' = Q.log
    /\ ui' = [op |-> Q.op, sess |-> s, form |-> Q.form, rets |-> Q.rets, shown |-> Q.shown,
              done |-> Q.halt # "wait", prior |-> Q.prior]
    /\ run' = [run EXCEPT ![s] = IF Q.halt = "wait" THEN r ELSE Idle]

\* what the run r has got once the access with effect e is made
Given(r, e) ==
    [r EXCEPT !.got = IF e.replace THEN [@ EXCEPT ![Len(@)] = e.item] ELSE Append(@, e.item)]

\* session s executes the run r up to the access it waits for, makes that
\* access, and goes on to the next one or to the end of the run
Step(s, r) ==
    With(Script(s, r), LAMBDA P :
        IF P.halt = "wait"
        THEN \E e \in Perform(P.pending) :
                /\ cache' = e.cache
                /\ lastCall' = e.lastCall
                /\ stored' = e.stored
                /\ now' = e.now
                /\ Publish(s, Given(r, e), Script(s, Given(r, e)))
        ELSE /\ UNCHANGED <<cache, lastCall, stored, now>>
             /\ Publish(s, r, P))

\* session s steps while the run of the session that stepped last is still
\* in progress and is not waiting for a call in flight
Overtakes(s) ==
    /\ ui.sess \in Sessions \ {s}
    /\ run[ui.sess].active
    /\ LET got == run[ui.sess].got
       IN  ~(/\ got # <<>>
             /\ got[Len(got)].kind = "blocked"
             /\ Locked(got[Len(got)].rec.sig))

\* the sessions' threads take turns: it is the turn of session s
Turn(s) ==
    /\ Overtakes(s) => switches < MaxSwitches
    /\ switches' = IF Overtakes(s) THEN switches + 1 ELSE switches

\* session s starts the run r
Start(s, r) ==
    /\ steps < MaxSteps
    /\ ~run[s].active
    /\ Turn(s)
    /\ steps' = steps + 1
    /\ Step(s, r)
    /\ UNCHANGED remote

\* ----------------------------------------------------------------- actions
\* the run in progress in session s makes its next access
Resume(s) ==
    /\ run[s].active
    /\ Turn(s)
    /\ Step(s, run[s])
    /\ UNCHANGED <<steps, remote>>

\* time passes (a request in flight may last that long: the timeouts of
\* requests bound the wait for each byte, not the whole exchange)
Tick ==
    /\ now < MaxTime
    /\ now' = now + TickStep
    /\ UNCHANGED <<api_key, profiles, accounts, last_refresh, cache, steps, switches, run,
                   log, lastCall, stored, test_drawn, ui, remote, origin>>

\* no run is in progress
Quiet == \A s \in Sessions : ~run[s].active

\* signatures of the requests the pages issue
DirectSigs ==
    {Get("/profiles"), Get("/accounts"),
     Sig("/profiles", "POST", <<"profile", <<97, 98>>>>, NoArg, NoArg),
     Sig("/media", "POST", NoArg, NoArg, <<"bytes1">>)}

\* a call of make_api_request itself, in whatever state a session that
\* holds a key is in (every call site is reached only with a key: without
\* one main() returns at the welcome page, and the sidebar's buttons are
\* guarded)
CallRequest(s, sig) ==
    /\ api_key[s] # ""
    /\ Start(s, Begin(s, "make_api_request", api_key[s], "Dashboard", sig, <<>>))

\* page is selected, or another widget that no handler reads is operated
\* while page is selected
VisitPage(s, page) ==
    Start(s, Begin(s, "visit", api_key[s], page, <<page>>, <<>>))

\* "Run Connection Test" is pressed: the button is there when the session's
\* latest run drew it, and the script runs again on the same page
TestConnection(s) ==
    /\ api_key[s] # ""
    /\ test_drawn[s] # ""
    /\ Start(s, Begin(s, "testConnection", api_key[s], test_drawn[s], <<test_drawn[s]>>,
                      <<>>))

\* the API Key input of session s is set to k while page is selected
SetCredential(s, k, page) ==
    /\ k # api_key[s]
    /\ Start(s, Begin(s, "setCredential", k, page, <<page>>, <<>>))

\* "Refresh Calendar" is pressed on the Calendar View page
RefreshCalendar(s) ==
    /\ api_key[s] # ""
    /\ Start(s, Begin(s, "refreshCalendar", api_key[s], "Calendar View", <<>>, <<>>))

\* names typed into the Create Profile form
ProfileNames ==
    {<<>>, <<32>>, <<9, 10>>, <<11>>, <<29, 30>>, <<97>>, <<97, 11>>, <<97, 98>>,
     <<9, 97, 98, 32>>, <<11, 97, 98>>, <<97, 98, 31>>, <<160, 97, 98, 8195>>, <<99, 100>>}

\* "Create Profile" is pressed on the Profiles page
CreateProfile(s, name) ==
    /\ api_key[s] # ""
    /\ Start(s, Begin(s, "createProfile", api_key[s], "Profiles", name, <<>>))

\* file contents offered to the uploader
Files == {"bytes1", "bytes2"}

\* "Upload Image" is pressed on the Posts page with file f chosen
UploadMedia(s, f) ==
    /\ api_key[s] # ""
    /\ Start(s, Begin(s, "uploadMedia", api_key[s], "Posts", f, <<>>))

\* what can be entered in the Schedule New Post form
PostForms ==
    [content : {<<>>, <<32, 10>>, <<28, 133>>, <<104, 105, 10>>},
     ticked : SUBSET {"1", "2"},
     subreddit : {"", "sr"},
     type : {"text", "link"},
     url : {"", "u"},
     scheduledFor : {"t1"}]

\* "Schedule Post" is pressed on the Posts page; the form is drawn only for
\* a session that has accounts (st.stop() precedes it otherwise)
CreatePost(s, form) ==
    /\ api_key[s] # ""
    /\ accounts[s] # <<>>
    /\ Start(s, Begin(s, "createPost", api_key[s], "Posts", form, <<>>))

\* the Posts page is selected
VisitPosts(s) ==
    /\ api_key[s] # ""
    /\ Start(s, Begin(s, "visitPosts", api_key[s], "Posts", <<>>, <<>>))

\* what the widgets of the two Reddit pages can hold; the time filter has a
\* value only while it is drawn, "Include NSFW" is ticked together with an
\* author to keep the set small, and the "Limit" slider is left at its
\* default
RedditWidgets(sorts) ==
    {f \in [query : {<<32, 113>>},
            subreddit : {<<>>, <<115>>, <<30>>},
            author : {<<>>, <<97>>},
            nsfw : BOOLEAN,
            sort : sorts,
            time : TimeFilters \cup {""},
            limit : {25}] :
        /\ (f.sort = "top") <=> (f.time # "")
        /\ f.nsfw <=> (f.author # <<>>)}

FeedForms == {f \in RedditWidgets(FeedSorts) : f.author = <<>>}
SearchForms == RedditWidgets(SearchSorts)

\* the Reddit Feed page is selected (the top of Reddit Search is the same code)
VisitReddit(s) ==
    /\ api_key[s] # ""
    /\ Start(s, Begin(s, "visitReddit", api_key[s], "Reddit Feed", <<>>, <<>>))

\* "Load Feed" is pressed on the Reddit Feed page; the button is drawn only
\* for a session that has a Reddit account, one of which is selected
LoadFeed(s, form) ==
    /\ api_key[s] # ""
    /\ \E account \in RedditAccounts(accounts[s]) :
          Start(s, Begin(s, "redditFeed", api_key[s], "Reddit Feed", form, account))

\* "Search" is pressed on the Reddit Search page; the button is enabled only
\* while the query holds more than white space
SearchReddit(s, form) ==
    /\ api_key[s] # ""
    /\ Strip(form.query) # <<>>
    /\ \E account \in RedditAccounts(accounts[s]) :
          Start(s, Begin(s, "redditSearch", api_key[s], "Reddit Search", form, account))

\* "Refresh Data" is pressed while page is selected
RefreshData(s, page) ==
    Start(s, Begin(s, "refresh", api_key[s], page, <<page>>, <<>>))

\* "Validate API Key" is pressed while page is selected; the button exists
\* only while the session holds a key
ValidateKey(s, page) ==
    /\ api_key[s] # ""
    /\ Start(s, Begin(s, "validate", api_key[s], page, <<page>>, <<>>))

\* ---------------------------------------------------------- specifications
\* every session holds the same key
All(key) == [s \in Sessions |-> key]

\* the state in which the sessions hold keys and each the accounts accs, with
\* nothing cached, budget runs left to start and the remote API answering
\* with outcomes
Starting(keys, accs, budget, outcomes) ==
    /\ api_key = keys
    /\ profiles = [s \in Sessions |-> <<>>]
    /\ accounts = [s \in Sessions |-> accs]
    /\ last_refresh = [s \in Sessions |-> -1]
    /\ cache = <<>>
    /\ now = 0
    /\ steps = MaxSteps - budget
    /\ switches = 0
    /\ run = [s \in Sessions |-> Idle]
    /\ log = <<>>
    /\ lastCall = <<>>
    /\ stored = 0
    /\ test_drawn = [s \in Sessions |-> ""]
    /\ ui = NoUi
    /\ remote = outcomes
    /\ origin = [s \in Sessions |->
                    [NoOrigin EXCEPT !.accounts = IF accs = <<>> THEN "" ELSE keys[s]]]

\* script runs a behaviour of Spec makes
MaxCacheRuns == 2

\* the pages a session has selected while it presses a sidebar button or
\* changes its key: the one selected from the start, which loads both lists
\* and makes two requests of its own, one that loads a list when it is
\* empty, and one that only makes its own request
Pages == {"Dashboard", "Profiles", "Usage Stats"}

\* after construction: no key, nothing loaded, nothing cached; the remote
\* API answers every request of a behaviour alike
Init == \E o \in NetOutcomes : Starting(All(""), <<>>, MaxCacheRuns, {o})

Next ==
    \/ Tick
    \/ \E s \in Sessions : Resume(s)
    \/ \E s \in Sessions, k \in Keys, page \in Pages : SetCredential(s, k, page)
    \/ \E s \in Sessions : RefreshCalendar(s)
    \/ \E s \in Sessions, sig \in DirectSigs : CallRequest(s, sig)

Spec == Init /\ [][Next]_vars

\* ------------------------------------------- calls in and out of the window
\* script runs a behaviour of SpecCalls makes
MaxCallRuns == 3

\* sessions that hold a key or none, nothing cached; the remote API answers
\* with a body or with a failure.  The key is changed while "Analytics" is
\* selected, a page that makes one request
InitCalls == \E keys \in [Sessions -> {"", "k1"}] : Starting(keys, <<>>, MaxCallRuns, FrameOutcomes)

NextCalls ==
    \/ Tick
    \/ \E s \in Sessions : Resume(s)
    \/ \E s \in Sessions, k \in Keys, page \in {"Analytics"} : SetCredential(s, k, page)
    \/ \E s \in Sessions, sig \in DirectSigs : CallRequest(s, sig)

SpecCalls == InitCalls /\ [][NextCalls]_vars

\* ------------------------------------------------------- the forms' pages
\* script runs a behaviour of SpecPages makes
MaxPageRuns == 2

\* the posts submitted in SpecPages: text posts with a subreddit filled in
PagePosts == {f \in PostForms : f.type = "text" /\ f.url = "" /\ f.subreddit = "sr"}

\* sessions that already hold their keys and have loaded their accounts
InitPages == Starting(All("k1"), <<AccountReddit>>, MaxPageRuns, NetOutcomes)

NextPages ==
    \/ Quiet /\ Tick
    \/ \E s \in Sessions : Resume(s)
    \/ \E s \in Sessions, name \in ProfileNames : CreateProfile(s, name)
    \/ \E s \in Sessions, f \in Files : UploadMedia(s, f)
    \/ \E s \in Sessions, form \in PagePosts : CreatePost(s, form)

SpecPages == InitPages /\ [][NextPages]_vars

\* ------------------------------------------------ the Schedule New Post form
\* script runs a behaviour of SpecForms makes
MaxFormRuns == 2

\* sessions that already hold their keys, nothing loaded yet
InitForms == Starting(All("k1"), <<>>, MaxFormRuns, NetOutcomes)

NextForms ==
    \/ Quiet /\ Tick
    \/ \E s \in Sessions : Resume(s)
    \/ \E s \in Sessions : VisitPosts(s)
    \/ \E s \in Sessions, form \in PostForms : CreatePost(s, form)

SpecForms == InitForms /\ [][NextForms]_vars

\* ------------------------------------------------------- the Reddit pages
\* script runs a behaviour of SpecReddit makes
MaxRedditRuns == 2

\* sessions that already hold their keys, nothing loaded yet
InitReddit == Starting(All("k1"), <<>>, MaxRedditRuns, NetOutcomes)

NextReddit ==
    \/ Quiet /\ Tick
    \/ \E s \in Sessions : Resume(s)
    \/ \E s \in Sessions : VisitReddit(s)
    \/ \E s \in Sessions, form \in FeedForms : LoadFeed(s, form)
    \/ \E s \in Sessions, form \in SearchForms : SearchReddit(s, form)

SpecReddit == InitReddit /\ [][NextReddit]_vars

\* ------------------------------------------------------------ Refresh Data
\* the pages selected in SpecRefresh and SpecValidate
LoaderPages == {"Profiles", "Usage Stats"}

\* script runs a behaviour of SpecRefresh makes
MaxRefreshRuns == 2

\* answers of the remote API to the loaders: a body with the lists, an
\* empty object, and two failures
LoaderOutcomes ==
    {Response(200, "{A}"), Response(200, "{}"),
     Response(500, "<html>"), Response(401, "{message}")}

\* sessions that already hold their keys, nothing loaded yet
InitRefresh == Starting(All("k1"), <<>>, MaxRefreshRuns, LoaderOutcomes)

NextRefresh ==
    \/ Quiet /\ Tick
    \/ \E s \in Sessions : Resume(s)
    \/ \E s \in Sessions, k \in Keys, page \in LoaderPages : SetCredential(s, k, page)
    \/ \E s \in Sessions, page \in LoaderPages : RefreshData(s, page)

SpecRefresh == InitRefresh /\ [][NextRefresh]_vars

\* ------------------------------------------------------------ Validate
\* script runs a behaviour of SpecValidate makes
MaxValidateRuns == 2

\* answers of the remote API to /profiles: a body with the lists, an empty
\* object, a null body, and two failures
ValidateOutcomes ==
    {Response(200, "{A}"), Response(200, "{}"), Response(200, "null"),
     Response(500, "<html>"), Response(401, "{message}")}

\* sessions that already hold their keys, nothing loaded yet
InitValidate == Starting(All("k1"), <<>>, MaxValidateRuns, ValidateOutcomes)

NextValidate ==
    \/ Quiet /\ Tick
    \/ \E s \in Sessions : Resume(s)
    \/ \E s \in Sessions, k \in Keys, page \in LoaderPages : SetCredential(s, k, page)
    \/ \E s \in Sessions, page \in LoaderPages : ValidateKey(s, page)

SpecValidate == InitValidate /\ [][NextValidate]_vars

\* ------------------------------------------------- the Usage Statistics page
\* script runs a behaviour of SpecUsage makes
MaxUsageRuns == 2

\* sessions that hold their keys, nothing cached; the remote API answers
\* every request with one /usage-stats body
InitUsage ==
    \E current \in 0..MaxUploads, limit \in UploadLimits :
        Starting(All("k1"), <<>>, MaxUsageRuns, {Response(200, UsageText(current, limit))})

NextUsage ==
    \/ Quiet /\ Tick
    \/ \E s \in Sessions : Resume(s)
    \/ \E s \in Sessions : VisitPage(s, "Usage Stats")
    \/ \E s \in Sessions : TestConnection(s)

SpecUsage == InitUsage /\ [][NextUsage]_vars

\* ------------------------------------------- the HTTP outcomes, exhaustively
\* calls a behaviour of SpecHttp makes
MaxHttpCalls == 2

HttpSigs == {Get("/profiles")}

\* sessions that already hold their keys, nothing cached yet; the remote API
\* answers with any status, body or exception
InitHttp ==
    \E keys \in [Sessions -> Keys \ {""}] : Starting(keys, <<>>, MaxHttpCalls, AllOutcomes)

NextHttp ==
    \/ Quiet /\ Tick
    \/ \E s \in Sessions : Resume(s)
    \/ \E s \in Sessions, sig \in HttpSigs : CallRequest(s, sig)

SpecHttp == InitHttp /\ [][NextHttp]_vars

\* ------------------------------------------------------ all the operations
\* script runs a behaviour of SpecFrame makes
MaxFrameRuns == 2

\* one input per form: a valid profile name, a file, a valid post for the
\* Reddit account, a feed and a search
FrameForms ==
    [names    |-> {name \in ProfileNames : name = <<97, 98>>},
     files    |-> {f \in Files : f = "bytes1"},
     posts    |-> {f \in PostForms : /\ f.content = <<104, 105, 10>>
                                     /\ f.ticked = {"1"}
                                     /\ f.subreddit = "sr"
                                     /\ f.type = "text"
                                     /\ f.url = ""},
     feeds    |-> {f \in FeedForms : f.sort = "hot" /\ f.subreddit = <<>>},
     searches |-> {f \in SearchForms :
                      f.sort = "new" /\ f.subreddit = <<>> /\ f.author = <<>>}]

\* sessions that hold their keys and have loaded their accounts, no profiles
InitFrame == Starting(All("k1"), <<AccountReddit>>, MaxFrameRuns, FrameOutcomes)

NextFrame ==
    \/ Quiet /\ Tick
    \/ \E s \in Sessions : Resume(s)
    \/ \E s \in Sessions, k \in Keys, page \in AllPages : SetCredential(s, k, page)
    \/ \E s \in Sessions : RefreshCalendar(s)
    \/ \E s \in Sessions, sig \in DirectSigs : CallRequest(s, sig)
    \/ \E s \in Sessions, page \in Pages : ValidateKey(s, page)
    \/ \E s \in Sessions, page \in Pages : RefreshData(s, page)
    \/ \E s \in Sessions, name \in FrameForms.names : CreateProfile(s, name)
    \/ \E s \in Sessions, f \in FrameForms.files : UploadMedia(s, f)
    \/ \E s \in Sessions : VisitPosts(s)
    \/ \E s \in Sessions, form \in FrameForms.posts : CreatePost(s, form)
    \/ \E s \in Sessions : VisitReddit(s)
    \/ \E s \in Sessions, form \in FrameForms.feeds : LoadFeed(s, form)
    \/ \E s \in Sessions, form \in FrameForms.searches : SearchReddit(s, form)
    \/ \E s \in Sessions, page \in AllPages : VisitPage(s, page)
    \/ \E s \in Sessions : TestConnection(s)

SpecFrame == InitFrame /\ [][NextFrame]_vars
\* ------------------------------------------------------------------ claims
IsError(result) == result[2] # None

\* the age, when a call was issued, of the entry it found: entries carry the
\* time they were stored, which is when the call that fetched them returned
Age(rec) == rec.time - rec.entryTs

\* C1 as claimed: two calls with the same signature issued less than 300 s
\* apart, the second after the first returned and no cache clear in between,
\* contact the network at most once, and the second returns the result of
\* the first
C1_AsClaimed ==
    \A i \in DOMAIN log :
        (log[i].hadPrev /\ log[i].time - log[i].prevTime < TTL)
            => /\ ~(log[i].net /\ log[i].prevNet)
               /\ log[i].result = log[i].prevResult

\* C1 amended: of two calls with the same signature and no cache clear in
\* between, a second call issued less than 300 s after the entry the first
\* call stored or was served from was stored contacts no network and returns
\* the result of the first
C1_WithinWindowOfCapture ==
    \A i \in DOMAIN log :
        (log[i].hadPrev /\ log[i].hadEntry /\ Age(log[i]) < TTL)
            => /\ ~log[i].net
               /\ log[i].result = log[i].prevResult

\* a second call 150 s after the call that fetched, served the same payload
C1_Witness ==
    \E i \in DOMAIN log :
        /\ log[i].hadPrev /\ log[i].prevNet
        /\ log[i].time - log[i].prevTime = TickStep
        /\ ~log[i].net
        /\ ~IsError(log[i].result)

\* C2 as claimed: a call issued once the entry of its signature has expired
\* contacts the network
C2_AsClaimed ==
    \A i \in DOMAIN log :
        (log[i].hadEntry /\ Age(log[i]) >= TTL) => log[i].net

\* C2 amended: an entry is served only while its age is strictly below 300 s;
\* a call issued once the entry of its signature has expired is never
\* answered from that entry: it contacts the network, unless a call with the
\* same signature is in flight, in which case it waits for that call and is
\* answered from the entry that call stores
C2_ExpiredEntryNotServed ==
    \A i \in DOMAIN log :
        /\ log[i].hit => (log[i].servedTs >= 0 /\ log[i].doneAt - log[i].servedTs < TTL)
        /\ (log[i].hit /\ ~log[i].waited) => (log[i].hadEntry /\ Age(log[i]) < TTL)
        /\ (log[i].hadEntry /\ Age(log[i]) >= TTL)
              => \/ log[i].net
                 \/ log[i].waited /\ log[i].hit /\ log[i].servedSeq > log[i].seq

\* a call made when the entry is exactly 300 s old goes to the network
C2_Witness ==
    \E i \in DOMAIN log :
        log[i].hadEntry /\ Age(log[i]) = TTL /\ log[i].net /\ log[i].hadPrev

\* C3 as claimed: after a session's credential change emptied the cache,
\* that session's next call with a signature that was cached contacts the
\* network
C3_AsClaimed ==
    \A i \in DOMAIN log : log[i].cachedAtChange => log[i].net

\* a session's first call with a signature that was cached when its
\* credential last changed contacts the network or is served from an entry
\* stored since the change
NotFromOldEntry ==
    \A i \in DOMAIN log :
        log[i].cachedAtChange
            => \/ log[i].net
               \/ log[i].hit /\ log[i].servedSeq > log[i].changeSeq

\* C3 amended: whenever a session's credential changes (to a different value
\* or to empty) the cache is emptied in the same step, so that session's
\* next call with a previously cached signature is never answered from the
\* old entry: it contacts the network, or is answered from an entry that the
\* call of another session has stored since the change
C3_ChangeEmptiesCache ==
    /\ [][(api_key' # api_key) => cache' = <<>>]_vars
    /\ []NotFromOldEntry

\* after a change to another non-empty key, a formerly cached signature is
\* fetched again
C3_Witness ==
    \E i \in DOMAIN log :
        log[i].cachedAtChange /\ log[i].net /\ log[i].key = "k2"

\* C5 as claimed: after a call whose request failed, the next call with the
\* same signature (by a session holding a credential) contacts the network
C5_AsClaimed ==
    \A i \in DOMAIN log :
        (log[i].hadPrev /\ log[i].prevNet /\ IsError(log[i].prevResult)
           /\ log[i].key # "")
            => log[i].net

\* the outcome kind a result shows, read off the result alone
KindOf(result) ==
    IF result[2] = None THEN "Success"
    ELSE CASE result[2].text = MsgNotConfigured.text -> "NotConfigured"
           [] result[2].text = MsgUnauthorized.text -> "Unauthorized"
           [] result[2].text = MsgRateLimited.text -> "RateLimited"
           [] result[2].text = MsgServerError.text -> "ServerError"
           [] result[2].text = MsgTimeout.text -> "Timeout"
           [] result[2].text = MsgConnection.text -> "ConnectionError"
           [] result[2].text = MsgApiError(0, "").text -> "ApiError"
           [] result[2].text = MsgUnknown("").text -> "Unknown"

\* the kind the claim assigns to a status code
KindForStatus(status) ==
    CASE status \in {200, 201} -> "Success"
      [] status = 401 -> "Unauthorized"
      [] status = 429 -> "RateLimited"
      [] status = 500 -> "ServerError"
      [] OTHER -> "ApiError"

\* C8: for every status code the API returns, the call yields the one outcome
\* of its class: 200/201 success with the decoded body (when the body
\* decodes), 401 Unauthorized, 429 RateLimited, 500 ServerError, any other
\* non-2xx an ApiError carrying the status; the kinds are told apart by the
\* result alone
C8_StatusClassification ==
    \A i \in DOMAIN log :
        LET o == log[i].outcome
            r == log[i].result
            d == JsonDecode(o.text)
        IN  (log[i].net /\ o.type = "response"
               /\ (o.status \in {200, 201} => d.ok)
               /\ (o.status \in 200..299 => o.status \in {200, 201}))
            => /\ KindOf(r) = KindForStatus(o.status)
               /\ (o.status \in {200, 201} => r = <<d.value, None>>)
               /\ (o.status \notin {200, 201} => r[1] = None)
               /\ (KindOf(r) = "ApiError" => r[2].status = o.status)

\* a 201, a 429 and a 404 have each been classified
C8_Witness ==
    \E i \in DOMAIN log :
        /\ log[i].net /\ log[i].outcome.status = 404 /\ KindOf(log[i].result) = "ApiError"
        /\ log[i].hadPrev /\ log[i].prevNet /\ KindOf(log[i].prevResult) = "RateLimited"

\* C9: a transport failure never leaves make_api_request as an exception: a
\* timeout yields the Timeout message, a connection failure the
\* ConnectionError message, any other exception the Unknown message with the
\* exception text, each with null data
C9_TransportFailures ==
    \A i \in DOMAIN log :
        LET o == log[i].outcome
            r == log[i].result
        IN  (log[i].net /\ o.type = "exception")
            => /\ ~log[i].raised
               /\ r[1] = None
               /\ (IsTimeout(o.exc) => r[2] = MsgTimeout)
               /\ (o.exc = "ConnectionError" => r[2] = MsgConnection)
               /\ (o.exc = "Other" => r[2] = MsgUnknown(o.exc))

\* a connect timeout has been reported as a timeout
C9_Witness ==
    \E i \in DOMAIN log :
        /\ log[i].net /\ log[i].outcome.exc = "ConnectTimeout"
        /\ log[i].result = <<None, MsgTimeout>>

\* a 200/201 whose body is not JSON
MalformedSuccess(rec) ==
    /\ rec.net
    /\ rec.outcome.type = "response"
    /\ rec.outcome.status \in {200, 201}
    /\ ~JsonDecode(rec.outcome.text).ok

\* C10 as claimed: a 200/201 whose body is not valid JSON leaves
\* make_api_request as an exception
C10_AsClaimed ==
    \A i \in DOMAIN log : MalformedSuccess(log[i]) => log[i].raised

\* C10 amended: a 200/201 whose body is not valid JSON does not leave
\* make_api_request as an exception: the decoding fault is caught by the
\* function's own `except Exception` and returned as the Unknown error value
\* (None, "Request failed: ...")
C10_DecodingFaultIsUnknown ==
    \A i \in DOMAIN log :
        MalformedSuccess(log[i])
            => /\ ~log[i].raised
               /\ log[i].result = <<None, MsgUnknown("JSONDecodeError")>>

\* a 201 with an HTML body has been answered
C10_Witness ==
    \E i \in DOMAIN log :
        MalformedSuccess(log[i]) /\ log[i].outcome.status = 201 /\ ~log[i].raised


\* C6 as claimed: every POST that the Create Profile and Schedule Post
\* submissions make reaches the network, a repeated identical payload included
C6_AsClaimed ==
    \A i \in DOMAIN log :
        (log[i].sig.method = "POST" /\ log[i].sig.endpoint \in {"/profiles", "/posts"})
            => (log[i].net /\ ~log[i].hit)

\* C7 as claimed: every upload reaches the network and none is answered from
\* the cache, a repeated upload of the same bytes included
C7_AsClaimed ==
    \A i \in DOMAIN log :
        log[i].sig.endpoint = "/media" => (log[i].net /\ ~log[i].hit)

\* ------------------------------------------------------------- the loaders
\* the make_api_request call a loader's return value came from
CallOf(ret) == log[ret.call]

\* C11: whenever load_profiles or load_accounts returns failure, the session's
\* list is exactly what it was before the call: a previously loaded list is
\* neither cleared nor partly overwritten by a failed load.
C11_FailedLoadKeepsList ==
    \A i \in DOMAIN ui.rets :
        ~ui.rets[i].ok => ui.rets[i].after = ui.rets[i].before

\* a loader failed in a session that held a loaded list, and the list is
\* still the session's
C11_Witness ==
    \E i \in DOMAIN ui.rets :
        /\ ~ui.rets[i].ok
        /\ ui.rets[i].before # <<>>
        /\ ui.rets[i].loader = "profiles"
        /\ profiles[ui.sess] = ui.rets[i].before

\* C12 as claimed: when the underlying request succeeded, whatever object was
\* decoded, the loader replaces the list by the payload's and returns
\* (True, None); when it failed the loader returns (False, m), m a message.
C12_AsClaimed ==
    \A i \in DOMAIN ui.rets :
        LET ret    == ui.rets[i]
            result == CallOf(ret).result
        IN  /\ (result[1] # None /\ result[2] = None) =>
                  /\ ret.ok
                  /\ ret.error = None
                  /\ ret.after = GetList(result[1], ret.loader)
            /\ result[2] # None => (~ret.ok /\ ret.error = result[2])

\* ------------------------------------------------------------ Refresh Data
\* the latest script run was a Refresh Data press by a session holding a key
Refreshed == ui.op = "refresh" /\ api_key[ui.sess] # ""

\* C17: in a refresh with a non-empty credential load_profiles is attempted
\* first and load_accounts next, whether or not load_profiles succeeded: the
\* first two loader calls of the run are /profiles then /accounts, and they
\* are consecutive calls of make_api_request.
C17_BothLoadersInOrder ==
    Refreshed =>
        /\ ui.done => Len(ui.rets) >= 2
        /\ Len(ui.rets) >= 1 =>
              /\ ui.rets[1].loader = "profiles"
              /\ CallOf(ui.rets[1]).sig = Get("/profiles")
        /\ Len(ui.rets) >= 2 =>
              /\ ui.rets[2].loader = "accounts"
              /\ CallOf(ui.rets[2]).sig = Get("/accounts")
              /\ ui.rets[2].call = ui.rets[1].call + 1

\* load_profiles failed with a message and load_accounts was still called,
\* reached the network and succeeded
C17_Witness ==
    /\ Refreshed
    /\ Len(ui.rets) >= 2
    /\ ~ui.rets[1].ok /\ ui.rets[1].error # None
    /\ ui.rets[2].loader = "accounts" /\ ui.rets[2].ok
    /\ CallOf(ui.rets[2]).net

\* some st.error message of the latest run carries the error
Surfaced(error) == \E i \in DOMAIN ui.shown : ui.shown[i].arg = error

\* C18 as claimed: when both loaders fail in a refresh, both error messages
\* are shown, not only the first.
C18_AsClaimed ==
    (/\ Refreshed
     /\ ui.done
     /\ Len(ui.rets) >= 2
     /\ ~ui.rets[1].ok /\ ui.rets[1].error # None
     /\ ~ui.rets[2].ok /\ ui.rets[2].error # None)
    => (Surfaced(ui.rets[1].error) /\ Surfaced(ui.rets[2].error))

\* both loaders of the latest refresh returned success
RefreshSucceeded ==
    /\ ui.op = "refresh"
    /\ Len(ui.rets) >= 2
    /\ ui.rets[1].loader = "profiles" /\ ui.rets[1].ok
    /\ ui.rets[2].loader = "accounts" /\ ui.rets[2].ok

\* C19: last_refresh changes only in a Refresh Data run in which both loaders
\* returned success, and then it is the pressing session's that becomes the
\* current time; a refresh in which a loader failed, and every other step,
\* leaves it unchanged.
C19_LastRefreshOnlyOnSuccess ==
    /\ [][(last_refresh' # last_refresh) =>
             /\ RefreshSucceeded'
             /\ last_refresh' = [last_refresh EXCEPT ![ui'.sess] = now']]_vars
    /\ [](RefreshSucceeded => last_refresh[ui.sess] = ui.rets[2].at)

\* a session refreshed successfully, and a later refresh of it in which a
\* loader failed left the earlier time in place
C19_Witness ==
    /\ ui.op = "refresh"
    /\ ui.done
    /\ Len(ui.rets) >= 2
    /\ ~RefreshSucceeded
    /\ last_refresh[ui.sess] >= 0
    /\ last_refresh[ui.sess] < now

\* ---------------------------------------------------------- Schedule Post
\* the latest script run was a Schedule Post submission
Submitted == ui.op = "createPost"

\* the make_api_request calls of the latest script run
RunCalls == {log[i] : i \in DOMAIN log}

\* the POSTs to /posts among them
PostCalls == {c \in RunCalls : c.sig.endpoint = "/posts" /\ c.sig.method = "POST"}

\* the accounts the submitting session ticked
Ticked ==
    {accounts[ui.sess][i] : i \in {j \in DOMAIN accounts[ui.sess] :
                                      accounts[ui.sess][j].id \in ui.form.ticked}}

TickedReddit == {a \in Ticked : a.platform = "reddit"}

\* the client-side checks, as the claim words them
ChecksHold ==
    /\ Strip(ui.form.content) # <<>>
    /\ Ticked # {}
    /\ TickedReddit # {} => ui.form.subreddit # ""
    /\ (TickedReddit # {} /\ ui.form.type = "link") => ui.form.url # ""

\* C13: a submission makes a POST to /posts only when every client-side check
\* holds (content non-empty after trimming, a target ticked, a subreddit for
\* every Reddit target, a URL for every Reddit link target); when a check
\* fails the submission makes no call at all: the only call of that script
\* run is the GET of the posts listing the page draws below the form.
C13_PostOnlyWhenValid ==
    Submitted =>
        /\ PostCalls # {} => ChecksHold
        /\ ~ChecksHold => \A c \in RunCalls : c.sig = Get("/posts")
        /\ (ui.done /\ ChecksHold) => PostCalls # {}

\* a valid submission with a Reddit link target reached the network
C13_Witness ==
    /\ Submitted
    /\ ChecksHold
    /\ TickedReddit # {} /\ ui.form.type = "link"
    /\ \E c \in PostCalls : c.net

\* C14: a submission with empty content and nothing ticked shows at least two
\* messages, one per violated rule (all of them, not only the first), and
\* makes no POST and no call other than the page's posts listing.
C14_AllMessagesShown ==
    (Submitted /\ Strip(ui.form.content) = <<>> /\ Ticked = {}) =>
        /\ Len(ui.shown) >= 2
        /\ Surfaced(Str("Post content is required", 0, ""))
        /\ Surfaced(Str("At least one platform must be selected", 0, ""))
        /\ \A c \in RunCalls : c.sig = Get("/posts")

\* such a submission was made, with the content field left empty
C14_Witness ==
    /\ Submitted
    /\ ui.form.content = <<>>
    /\ Ticked = {}
    /\ Len(ui.shown) = 2

\* C15 as claimed: every submission with a Reddit target of type "link" and
\* an empty URL shows the message that a URL is required, whatever the
\* subreddit field holds.
C15_AsClaimed ==
    (Submitted /\ TickedReddit # {} /\ ui.form.type = "link" /\ ui.form.url = "") =>
        Surfaced(Str("URL is required for Reddit link posts", 0, ""))

\* ------------------------------------------------------------ Reddit pages
\* the Reddit feed and search calls of the latest script run
RedditCalls == {c \in RunCalls : c.sig.endpoint \in {"/reddit/feed", "/reddit/search"}}

\* the request's params carry t, with one of the six values
CarriesTimeFilter(params) ==
    /\ "t" \in params.keys
    /\ params.t.kind = "str"
    /\ params.t.text \in TimeFilters

\* C16: the request of the Reddit feed and of the Reddit search carries the
\* parameter t, with a value among hour, day, week, month, year and all,
\* exactly when the sort sent is "top"; with any other sort no t is sent.
C16_TimeFilterIffTop ==
    \A c \in RedditCalls :
        LET params == c.sig.params[1]
        IN  /\ CarriesTimeFilter(params) <=> (params.sort = "top")
            /\ params.sort # "top" => "t" \notin params.keys
            /\ params.sort = ui.form.sort

\* a search sorted by "top" went out with t = "year"
C16_Witness ==
    \E c \in RedditCalls :
        /\ c.net
        /\ c.sig.endpoint = "/reddit/search"
        /\ c.sig.params[1].sort = "top"
        /\ c.sig.params[1].t = Str("year", 0, "")

\* ------------------------------------------------------------- no retries
\* C20: one invocation of make_api_request issues at most one network
\* request whatever the outcome: exactly one when it reaches the network,
\* none when it is answered from the cache or returns before sending.
C20_AtMostOneRequest ==
    \A i \in DOMAIN log :
        /\ log[i].sent <= 1
        /\ log[i].net <=> (log[i].sent = 1)

\* a call timed out, was answered with the timeout message, and had issued
\* one request
C20_Witness ==
    \E i \in DOMAIN log :
        /\ log[i].net
        /\ log[i].outcome.type = "exception" /\ IsTimeout(log[i].outcome.exc)
        /\ log[i].result = <<None, MsgTimeout>>
        /\ log[i].sent = 1

\* ------------------------------------------------------- reads after writes
\* call i of the latest run was a create that reached the network and
\* succeeded
CreateSucceeded(i) ==
    /\ log[i].sig.method = "POST"
    /\ log[i].sig.endpoint \in {"/profiles", "/posts"}
    /\ log[i].net
    /\ Truthy(log[i].result[1])

\* call j is the first read of the created collection after call i
NextReadAfter(i, j) ==
    /\ j > i
    /\ log[j].sig = Get(log[i].sig.endpoint)
    /\ \A k \in (i + 1)..(j - 1) : log[k].sig # log[j].sig

\* C26 as claimed: after a Create Profile (Schedule Post) submission
\* succeeds, the next load_profiles (posts listing) contacts the network.
C26_AsClaimed ==
    \A i \in DOMAIN log, j \in DOMAIN log :
        (CreateSucceeded(i) /\ NextReadAfter(i, j)) => (log[j].net /\ ~log[j].hit)

\* C27 as claimed: a Refresh Data press by a session holding a key contacts
\* the network for /profiles and for /accounts.
C27_AsClaimed ==
    Refreshed => \A i \in DOMAIN ui.rets : i <= 2 => CallOf(ui.rets[i]).net

\* C29 as claimed: every result of make_api_request is a pair in which
\* exactly one of data and error is not None.
C29_AsClaimed ==
    \A i \in DOMAIN log :
        (log[i].result[1] = None) # (log[i].result[2] = None)

\* ------------------------------------------------------------ upload usage
\* a message with this text is on the page
OnPage(text) == \E i \in DOMAIN ui.shown : ui.shown[i].text = text

\* C30 as claimed: for every upload count and positive limit, "Upload limit
\* almost reached" is shown whenever usage exceeds 90% of the limit, and
\* "Approaching upload limit" only when usage is above 80% and at most 90%
\* (on the Usage Stats page once its run has ended, for a count up to the
\* limit: above it the page ends at st.progress).
C30_AsClaimed ==
    (/\ ui.op = "visit" /\ ui.form = <<"Usage Stats">> /\ ui.done /\ log # <<>>
     /\ Truthy(log[1].result[1]) /\ "uploads" \in log[1].result[1].keys
     /\ ~log[1].result[1].uploads.limit.unlimited
     /\ log[1].result[1].uploads.limit.n > 0
     /\ log[1].result[1].uploads.current <= log[1].result[1].uploads.limit.n) =>
        LET current == log[1].result[1].uploads.current
            limit   == log[1].result[1].uploads.limit.n
        IN  /\ 10 * current > 9 * limit => OnPage("Upload limit almost reached!")
            /\ OnPage("Approaching upload limit!") =>
                  (10 * current > 8 * limit /\ 10 * current <= 9 * limit)

\* ------------------------------------------------------------- credentials
\* C24 as claimed: every payload make_api_request returns to a caller that
\* holds a credential was fetched with that credential.
C24_AsClaimed ==
    \A i \in DOMAIN log :
        (log[i].result[1] # None /\ log[i].key # "") => log[i].fetchKey = log[i].key

\* C25 as claimed: every non-empty profiles or accounts list of a session
\* was loaded while the session held the credential it holds now.
C25_AsClaimed ==
    \A s \in Sessions :
        /\ profiles[s] # <<>> => origin[s].profiles = api_key[s]
        /\ accounts[s] # <<>> => origin[s].accounts = api_key[s]

\* ------------------------------------------------------------ media upload
\* the POST /posts requests of the latest script run
PostsSent == {i \in DOMAIN log : log[i].sig.method = "POST" /\ log[i].sig.endpoint = "/posts"}

\* C28 as claimed: a post submitted after a successful upload carries
\* mediaItems with exactly one image entry whose url is the uploaded file's
\* URL, and a post submitted with no successful upload before it carries no
\* mediaItems.
C28_AsClaimed ==
    ui.op = "createPost" =>
        \A i \in PostsSent :
            log[i].sig.data[5] = IF ui.prior = None THEN <<>>
                                 ELSE <<[type |-> "image", url |-> ui.prior]>>

\* ------------------------------------------------------------- validation
\* the verdict of the latest run's validate_api_key, when it made a request
Validated ==
    /\ ui.op = "validate"
    /\ ui.rets # <<>>
    /\ ui.rets[1].loader = "validate"
    /\ ui.rets[1].call > 0

\* C22 as claimed: validate_api_key reports valid exactly when load_profiles
\* succeeds on the same response, and otherwise reports invalid with the
\* error message of the /profiles request.
C22_AsClaimed ==
    Validated =>
        LET v      == ui.rets[1]
            result == CallOf(v).result
        IN  /\ v.ok <=> Truthy(result[1])
            /\ ~v.ok => (v.error # None /\ v.error = result[2])

\* ------------------------------------------------------------------ frame
\* the list a run leaves in session state according to its loaders' return
\* values: the one its last successful loader of that name stored, else the
\* one it started with
RECURSIVE Stored(_, _, _)
Stored(rets, loader, start) ==
    IF rets = <<>> THEN start
    ELSE LET r == rets[Len(rets)]
         IN  IF r.loader = loader /\ r.ok THEN r.after
             ELSE Stored(SubSeq(rets, 1, Len(rets) - 1), loader, start)

\* the operations of the latest script run that are not loaders
OtherCalls ==
    {i \in DOMAIN log : \A j \in DOMAIN ui.rets :
                            ui.rets[j].call = i => ui.rets[j].loader = "validate"}

\* C21: a step changes a session's profiles (accounts) only to what a
\* successful load_profiles (load_accounts) of that session's run stored;
\* validate_api_key, direct make_api_request calls, uploads, post
\* submissions, listings, usage-stats and Reddit calls leave the key and the
\* lists as they are, the key changes only by the API Key input and
\* last_refresh only in a Refresh Data run.
C21_OnlyLoadersWrite ==
    [][\A s \in Sessions :
         LET rets == IF ui'.sess = s THEN ui'.rets ELSE <<>>
         IN  /\ profiles'[s] = Stored(rets, "profiles", profiles[s])
             /\ accounts'[s] = Stored(rets, "accounts", accounts[s])
             /\ api_key'[s] # api_key[s] => (ui'.op = "setCredential" /\ ui'.sess = s)
             /\ last_refresh'[s] # last_refresh[s] => (ui'.op = "refresh" /\ ui'.sess = s)
      ]_vars

\* the key was validated against a response that carried profiles, on a page
\* that loads nothing, and the session's profiles are still empty
C21_Witness ==
    /\ Validated
    /\ ui.rets[1].ok
    /\ GetList(CallOf(ui.rets[1]).result[1], "profiles") # <<>>
    /\ Len(ui.rets) = 1
    /\ OtherCalls # {}
    /\ profiles[ui.sess] = <<>>

====
